---- MODULE Spec2Model ----
(***************************************************************************)
(* Independent Tabs: the side panel's ordering model (src/sidepanel.js).   *)
(*                                                                         *)
(* The panel keeps `items`, a mixed list of tab ids and group objects, in  *)
(* memory and mirrors it to chrome.storage.local.  Handlers are async      *)
(* functions: each runs to its next await, and other handlers run while it *)
(* is suspended.  One action of this module is one such run-to-await step. *)
(*                                                                         *)
(* An item is a record: a tab id (a JS number) has group = 0 and its id in *)
(* `tab`; a group object has its id in `group` and its members in `tabs`.  *)
(***************************************************************************)
EXTENDS Naturals, Sequences, FiniteSets, TLC

VARIABLES
    \* the browser
    hostOrder,            \* the live tabs of the panel's window, in tab-bar order
    nextTabId,            \* the id the browser gives the next tab it creates
    \* chrome.storage.local
    stItems,              \* the persisted `items`
    stNames,              \* the persisted `customNames` (the ids that have a name)
    stSessions,           \* the persisted `savedSessions`
    stTabOrder,           \* the `tabOrder` key the service worker keeps
    settings,             \* settings.newTabPosition
    notifs,               \* storage.onChanged notifications not yet delivered
    \* the panel's module-level state
    pc,                   \* how far init() has run
    items,
    tabData,              \* the ids tabData has an entry for
    customNames,
    savedSessions,
    restoringTabIds,
    removeQueue,
    removeTimeout,        \* TRUE while the removal timer is pending
    autosaveQueue,
    autosaveTimeout,      \* TRUE while the autosave timer is pending
    selectedTabs,         \* a JS Set: its elements in insertion order
    lastClickedTab,
    keyboardFocusedTabId,
    menu,                 \* the open context menu, or NoMenu
    nextGroupId,          \* generateGroupId: the next fresh group id
    \* handlers suspended at an await
    created,              \* tabs.onCreated handlers
    passes,               \* processRemoveQueue runs
    restores,             \* restoreSession runs
    conts,                \* the tails of handlers that follow their last write
    \* the service worker and the other windows
    otherTabs,            \* the tabs created in windows that are not of type normal
    sw,                   \* the service worker's handlers suspended at an await
    \* history variables, read by the properties only
    burst,                \* the tab-removed events since the removal timer was last idle
    coalesced,            \* TRUE when the latest autosave timer was armed more than once
    handlerAdded,         \* the tabs the tabs.onCreated handler inserted
    restoredTabs,         \* the tabs restoreSession created
    events,               \* how many events the browser has produced
    clicks,               \* how many clicks the user has made in the panel
    prevItems,            \* `items` before the latest startup sync
    lastOp,               \* the user's gesture that ran last, and items before it
                          \* (for an import, the items of the backup file)
    \* the sessions view and the group menu's session entries
    sessionOp             \* the saveGroupAsSession or deleteSession that ran last

vars == <<hostOrder, nextTabId, stItems, stNames, stSessions, stTabOrder, settings,
          notifs, pc, items, tabData, customNames, savedSessions, restoringTabIds,
          removeQueue, removeTimeout, autosaveQueue, autosaveTimeout, selectedTabs,
          lastClickedTab, keyboardFocusedTabId, menu, nextGroupId, created, passes,
          restores, conts, burst, handlerAdded, restoredTabs, events, clicks,
          prevItems, otherTabs, sw, lastOp, coalesced, sessionOp>>

browserVars == <<hostOrder, nextTabId>>
storeVars == <<stItems, stNames, stSessions, stTabOrder, settings, notifs>>
selVars == <<selectedTabs, lastClickedTab, keyboardFocusedTabId, menu>>
removeVars == <<removeQueue, removeTimeout, passes, burst>>
autosaveVars == <<autosaveQueue, autosaveTimeout, coalesced>>
restoreVars == <<restoringTabIds, restores, restoredTabs>>
historyVars == <<handlerAdded, prevItems, clicks>>
workerVars == <<otherTabs, sw>>

(***************************************************************************)
(* Bounds of the model.                                                    *)
(***************************************************************************)
\* the tabs the browser ever creates (ids 1..MaxTabs)
MaxTabs == 3
\* the events of one behaviour that come from outside the panel's lists: tabs
\* opened, closed, moved, activated, navigated; a rename key, a session restore
MaxEvents == 3
\* the clicks of one behaviour on the panel's tab rows and menus
MaxClicks == 4
\* startup sync on its own: the ids of the persisted model and of the live tabs
SyncTabs == 3
\* startup sync on its own: the root length of the persisted model
SyncLen == 3
\* startup sync on its own: the tabs of a group of the persisted model
SyncGroupLen == 2
\* gestures on their own: the open tabs of the model (ids 1..OpTabs)
OpTabs == 3

(***************************************************************************)
(* Sequences.                                                              *)
(***************************************************************************)
Range(s) == {s[i] : i \in DOMAIN s}

NoDup(s) == \A i, j \in DOMAIN s : s[i] = s[j] => i = j

Reverse(s) == [i \in 1..Len(s) |-> s[Len(s) + 1 - i]]

RemoveAt(s, i) == SubSeq(s, 1, i - 1) \o SubSeq(s, i + 1, Len(s))

\* Array.prototype.splice(i, 0, ...xs) with a 0-based index i: the index is clamped
\* to the array's length
InsertAt(s, i, xs) ==
    LET k == IF i > Len(s) THEN Len(s) ELSE i
    IN  SubSeq(s, 1, k) \o xs \o SubSeq(s, k + 1, Len(s))

\* Array.prototype.indexOf, 1-based; 0 when absent
IndexOf(s, x) ==
    IF x \in Range(s) THEN CHOOSE i \in DOMAIN s : s[i] = x /\ \A j \in 1..(i - 1) : s[j] # x
    ELSE 0

\* all sequences over S of length at most n
SeqsUpTo(S, n) == UNION {[1..k -> S] : k \in 0..n}

(***************************************************************************)
(* Items.                                                                  *)
(***************************************************************************)
TabItem(t) == [group |-> 0, tab |-> t, tabs |-> <<>>, autoSave |-> FALSE, linkedSessionId |-> 0]

GroupItem(g, ts, auto, sid) ==
    [group |-> g, tab |-> 0, tabs |-> ts, autoSave |-> auto, linkedSessionId |-> sid]

\* typeof item === 'number'
IsTab(it) == it.group = 0

RECURSIVE Flatten(_)
Flatten(its) ==
    IF its = <<>> THEN <<>>
    ELSE (IF IsTab(Head(its)) THEN <<Head(its).tab>> ELSE Head(its).tabs) \o Flatten(Tail(its))

getAllTabIds(its) == Flatten(its)

TabSet(its) == Range(getAllTabIds(its))

Groups(its) == {its[i] : i \in {j \in DOMAIN its : ~IsTab(its[j])}}

\* items.find(item => item.group === groupId): the first such item's index, 0 if none
FindGroup(its, g) ==
    IF \E i \in DOMAIN its : its[i].group = g /\ g # 0
    THEN CHOOSE i \in DOMAIN its : its[i].group = g /\ \A j \in 1..(i - 1) : its[j].group # g
    ELSE 0

\* the id of the first group that has tabId among its tabs, 0 (null) if none
getTabGroupId(its, t) ==
    IF \E i \in DOMAIN its : ~IsTab(its[i]) /\ t \in Range(its[i].tabs)
    THEN its[CHOOSE i \in DOMAIN its :
                /\ ~IsTab(its[i]) /\ t \in Range(its[i].tabs)
                /\ \A j \in 1..(i - 1) : IsTab(its[j]) \/ t \notin Range(its[j].tabs)].group
    ELSE 0

\* syncItemsWithTabs, its first half: a tab id stays when the query returned it; a
\* group keeps its members the query returned and stays when one is left
SyncFilter(its, tabs) ==
    LET currentTabIds == Range(tabs)
        cut(it) == IF IsTab(it) THEN it
                   ELSE [it EXCEPT !.tabs = SelectSeq(it.tabs, LAMBDA id : id \in currentTabIds)]
        shrunk == [i \in DOMAIN its |-> cut(its[i])]
    IN  SelectSeq(shrunk, LAMBDA it : IF IsTab(it) THEN it.tab \in currentTabIds
                                      ELSE Len(it.tabs) > 0)

\* a second half that forgets to look at what items already holds
SyncAddAll(its, tabs, pos) ==
    LET new == [i \in DOMAIN tabs |-> TabItem(tabs[i])]
    IN  IF pos = "top" THEN Reverse(new) \o its ELSE its \o new

\* syncItemsWithTabs, its second half: the queried tabs that are in no item, each
\* unshifted (top) or pushed (bottom) in the order of the query
SyncAdd(its, tabs, pos) ==
    LET missing == SelectSeq(tabs, LAMBDA t : t \notin TabSet(its))
        new == [i \in DOMAIN missing |-> TabItem(missing[i])]
    IN  IF pos = "top" THEN Reverse(new) \o its ELSE its \o new

syncItemsWithTabs(its, tabs, pos) == SyncAdd(SyncFilter(its, tabs), tabs, pos)

\* processRemoveQueue's single filter pass over the tabs of the batch
RemoveFilter(its, removedSet) ==
    LET cut(it) == IF IsTab(it) THEN it
                   ELSE [it EXCEPT !.tabs = SelectSeq(it.tabs, LAMBDA id : id \notin removedSet)]
        shrunk == [i \in DOMAIN its |-> cut(its[i])]
    IN  SelectSeq(shrunk, LAMBDA it : IF IsTab(it) THEN it.tab \notin removedSet
                                      ELSE Len(it.tabs) > 0)

(***************************************************************************)
(* chrome.storage.local.  A set() stores a copy of the value it is given   *)
(* when it is called; the store reports a key through onChanged when the   *)
(* value written differs from the one stored, and the report reaches the   *)
(* panel's listener later, as a task of its own.                           *)
(***************************************************************************)
ItemsNotif(val) == [key |-> "items", items |-> val, names |-> {}]

NamesNotif(val) == [key |-> "customNames", items |-> <<>>, names |-> val]

\* notifs after chrome.storage.local.set({ items: val })
AfterItemsWrite(val) ==
    IF pc = "ready" /\ val # stItems THEN Append(notifs, ItemsNotif(val)) ELSE notifs

\* notifs after chrome.storage.local.set({ customNames: val })
AfterNamesWrite(val) ==
    IF pc = "ready" /\ val # stNames THEN Append(notifs, NamesNotif(val)) ELSE notifs

(***************************************************************************)
(* Saved sessions: a session keeps, per tab, its URL and whether it had a   *)
(* custom name.  The URL of an open tab is written as the tab's id, a URL  *)
(* that no open tab shows as 0.                                            *)
(***************************************************************************)
SessionIds == {1, 2}

NoSession == [exists |-> FALSE, autoSave |-> FALSE, tabs |-> <<>>]

Session(auto, ts) == [exists |-> TRUE, autoSave |-> auto, tabs |-> ts]

SessionTab(url, named) == [url |-> url, customName |-> named]

NoMenu == [open |-> FALSE, tab |-> 0, group |-> 0, multi |-> FALSE, named |-> FALSE]

(***************************************************************************)
(* The state a panel can be opened in: what storage holds from the panel's *)
(* earlier life in this browser session.                                   *)
(***************************************************************************)
\* a first start: no items yet, the legacy order written by the service worker
FreshStore ==
    [items |-> <<>>, names |-> {},
     tabOrder |-> [present |-> TRUE, order |-> <<2, 1>>],
     sessions |-> [s \in SessionIds |->
                     IF s = 2 THEN Session(TRUE, <<SessionTab(0, TRUE)>>) ELSE NoSession]]

\* a later start: tab 2 is named and sits in a group saved as session 1 with
\* autosave on; session 2 is a saved session with no group open
UsedStore ==
    [items |-> <<TabItem(1), GroupItem(1, <<2>>, TRUE, 1)>>, names |-> {2},
     tabOrder |-> [present |-> FALSE, order |-> <<>>],
     sessions |-> [s \in SessionIds |->
                     IF s = 1 THEN Session(TRUE, <<SessionTab(2, TRUE)>>)
                     ELSE Session(TRUE, <<SessionTab(0, FALSE)>>)]]

InitStores == {FreshStore, UsedStore}

\* no gesture on the list has run
NoOp == [name |-> "none", pc |-> "done", tabs |-> <<>>, group |-> 0, srcs |-> <<>>,
         index |-> 0, before |-> <<>>]

\* no session has been saved or deleted from the panel
NoSessionOp == [name |-> "none", pc |-> "done", group |-> 0, sid |-> 0, tabs |-> <<>>,
                auto |-> FALSE, object |-> FALSE]

\* what every panel starts with: nothing queued, nothing selected, no handler
\* suspended
IdleLists ==
    /\ notifs = <<>>
    /\ restoringTabIds = {}
    /\ removeQueue = <<>>
    /\ removeTimeout = FALSE
    /\ autosaveQueue = <<>>
    /\ autosaveTimeout = FALSE
    /\ coalesced = FALSE
    /\ lastClickedTab = 0
    /\ keyboardFocusedTabId = 0
    /\ menu = NoMenu
    /\ nextGroupId = 3
    /\ created = {}
    /\ passes = {}
    /\ restores = {}
    /\ conts = {}
    /\ burst = <<>>
    /\ handlerAdded = {}
    /\ restoredTabs = {}
    /\ events = 0
    /\ clicks = 0
    /\ prevItems = <<>>
    /\ otherTabs = {}
    /\ sw = {}

\* and no gesture has run
Idle ==
    /\ IdleLists
    /\ lastOp = NoOp
    /\ sessionOp = NoSessionOp

\* the panel is opened in a window with two tabs
Init ==
    /\ hostOrder = <<1, 2>>
    /\ nextTabId = 3
    /\ \E p \in InitStores :
          /\ stItems = p.items
          /\ stNames = p.names
          /\ stSessions = p.sessions
          /\ stTabOrder = p.tabOrder
    /\ settings \in {"top", "bottom"}
    /\ pc = "load"
    /\ items = <<>>
    /\ tabData = {}
    /\ customNames = {}
    /\ savedSessions = [s \in SessionIds |-> NoSession]
    /\ selectedTabs = <<>>
    /\ Idle

\* the panel has been opened, on the used store, in a window with three tabs, and
\* init() has run to its end undisturbed
InitOpened ==
    /\ hostOrder = <<1, 2, 3>>
    /\ nextTabId = 4
    /\ settings = "bottom"
    /\ items = syncItemsWithTabs(UsedStore.items, hostOrder, settings)
    /\ stItems = items
    /\ stNames = UsedStore.names
    /\ stSessions = UsedStore.sessions
    /\ stTabOrder = UsedStore.tabOrder
    /\ pc = "ready"
    /\ tabData = Range(hostOrder)
    /\ customNames = stNames
    /\ savedSessions = stSessions
    /\ selectedTabs = <<>>
    /\ Idle

(***************************************************************************)
(* init().  No listener is registered before init's last line, so nothing  *)
(* of the panel runs between its awaits; what can happen there is that the *)
(* browser creates, closes or moves tabs.  init is therefore three steps:  *)
(* up to the tab query, the query with the sync, and the registration of   *)
(* the listeners.                                                          *)
(***************************************************************************)
\* the stored state is read; an empty items list adopts the legacy tabOrder
InitLoad ==
    /\ pc = "load"
    /\ pc' = "query"
    /\ customNames' = stNames
    /\ savedSessions' = stSessions
    /\ IF Len(stItems) = 0 /\ stTabOrder.present
       THEN /\ items' = [i \in DOMAIN stTabOrder.order |-> TabItem(stTabOrder.order[i])]
            /\ stItems' = items'
       ELSE /\ items' = stItems
            /\ UNCHANGED stItems
    /\ UNCHANGED <<browserVars, stNames, stSessions, stTabOrder, settings, notifs, tabData,
                   restoreVars, removeVars, autosaveVars, selVars, nextGroupId, created,
                   conts, historyVars, events, workerVars, lastOp, sessionOp>>

\* chrome.tabs.query answers with the tabs of the window; syncItemsWithTabs
InitSync ==
    /\ pc = "query"
    /\ pc' = "sync"
    /\ tabData' = tabData \cup Range(hostOrder)
    /\ items' = syncItemsWithTabs(items, hostOrder, settings)
    /\ stItems' = items'
    /\ prevItems' = items
    /\ UNCHANGED <<browserVars, stNames, stSessions, stTabOrder, settings, notifs,
                   customNames, savedSessions, restoreVars, removeVars, autosaveVars,
                   selVars, nextGroupId, created, conts, handlerAdded, events, clicks,
                   workerVars, lastOp, sessionOp>>

\* setupEventListeners
InitReady ==
    /\ pc = "sync"
    /\ pc' = "ready"
    /\ UNCHANGED <<browserVars, storeVars, items, tabData, customNames, savedSessions,
                   restoreVars, removeVars, autosaveVars, selVars, nextGroupId, created,
                   conts, historyVars, events, workerVars, lastOp, sessionOp>>

(***************************************************************************)
(* queueAutosave, for the group ids of gs in turn.                         *)
(***************************************************************************)
AutosaveEligible(its, g) ==
    /\ FindGroup(its, g) # 0
    /\ its[FindGroup(its, g)].autoSave
    /\ its[FindGroup(its, g)].linkedSessionId # 0

\* a queue that takes a group again for every request
RECURSIVE QueueAllAgain(_, _, _)
QueueAllAgain(q, its, gs) ==
    IF gs = <<>> THEN q
    ELSE QueueAllAgain(IF AutosaveEligible(its, Head(gs)) THEN Append(q, Head(gs)) ELSE q,
                       its, Tail(gs))

RECURSIVE QueueAll(_, _, _)
QueueAll(q, its, gs) ==
    IF gs = <<>> THEN q
    ELSE QueueAll(IF AutosaveEligible(its, Head(gs)) /\ Head(gs) \notin Range(q)
                  THEN Append(q, Head(gs)) ELSE q,
                  its, Tail(gs))

\* a queueAutosave that adds to the queue and forgets to arm the timer
queueAutosaveUnarmed(its, gs) ==
    /\ autosaveQueue' = QueueAll(autosaveQueue, its, gs)
    /\ autosaveTimeout' = autosaveTimeout
    /\ coalesced' = coalesced

queueAutosave(its, gs) ==
    /\ autosaveQueue' = QueueAll(autosaveQueue, its, gs)
    /\ autosaveTimeout' = (autosaveTimeout \/ \E i \in DOMAIN gs : AutosaveEligible(its, gs[i]))
    /\ coalesced' =
          LET accepted == {i \in DOMAIN gs : AutosaveEligible(its, gs[i])}
          IN  IF accepted = {} THEN coalesced
              ELSE autosaveTimeout \/ Cardinality(accepted) > 1

(***************************************************************************)
(* chrome.tabs.onCreated.                                                  *)
(***************************************************************************)
Handler(t, o) == [tab |-> t, opener |-> o, pc |-> "settings", group |-> 0]

\* the browser opens a tab (opener o, 0 for none); the listener caches its data
\* and waits for the settings
TabCreated(o) ==
    /\ nextTabId <= MaxTabs
    /\ events < MaxEvents
    /\ events' = events + 1
    /\ o \in Range(hostOrder) \cup {0}
    /\ hostOrder' = Append(hostOrder, nextTabId)
    /\ nextTabId' = nextTabId + 1
    /\ IF pc = "ready"
       THEN /\ tabData' = tabData \cup {nextTabId}
            /\ created' = created \cup {Handler(nextTabId, o)}
       ELSE UNCHANGED <<tabData, created>>
    /\ UNCHANGED <<storeVars, pc, items, customNames, savedSessions, restoreVars,
                   removeVars, autosaveVars, selVars, nextGroupId, conts, historyVars,
                   workerVars, lastOp, sessionOp>>

\* a handler that does not look at the opener
AddCreatedRoot(its, t, o, pos) ==
    IF pos = "top" THEN <<TabItem(t)>> \o its ELSE Append(its, TabItem(t))

\* where the handler puts the tab: into the opener's group, or at the root
AddCreated(its, t, o, pos) ==
    LET g == IF o # 0 THEN getTabGroupId(its, o) ELSE 0
        i == FindGroup(its, g)
    IN  IF g # 0 /\ i # 0
        THEN [its EXCEPT ![i].tabs = IF pos = "top" THEN <<t>> \o @ ELSE Append(@, t)]
        ELSE IF pos = "top" THEN <<TabItem(t)>> \o its ELSE Append(its, TabItem(t))

\* the settings have been read
CreatedResume(h) ==
    /\ h \in created
    /\ h.pc = "settings"
    /\ IF h.tab \in restoringTabIds
       THEN /\ restoringTabIds' = restoringTabIds \ {h.tab}
            /\ created' = created \ {h}
            /\ UNCHANGED <<items, stItems, notifs, handlerAdded>>
       ELSE /\ items' = AddCreated(items, h.tab, h.opener, settings)
            /\ stItems' = items'
            /\ notifs' = AfterItemsWrite(items')
            /\ handlerAdded' = handlerAdded \cup {h.tab}
            /\ created' = IF h.opener # 0 /\ getTabGroupId(items, h.opener) # 0
                          THEN (created \ {h}) \cup
                               {[h EXCEPT !.pc = "saved",
                                          !.group = getTabGroupId(items, h.opener)]}
                          ELSE created \ {h}
            /\ UNCHANGED restoringTabIds
    /\ UNCHANGED <<browserVars, stNames, stSessions, stTabOrder, settings, pc, tabData,
                   customNames, savedSessions, restores, restoredTabs, removeVars,
                   autosaveVars, selVars, nextGroupId, conts, events, prevItems, clicks,
                   workerVars, lastOp, sessionOp>>

\* saveItems has returned in the opener-group branch
CreatedSaved(h) ==
    /\ h \in created
    /\ h.pc = "saved"
    /\ created' = created \ {h}
    /\ queueAutosave(items, <<h.group>>)
    /\ UNCHANGED <<browserVars, storeVars, pc, items, tabData, customNames, savedSessions,
                   restoreVars, removeVars, selVars, nextGroupId, conts, historyVars,
                   events, workerVars, lastOp, sessionOp>>

(***************************************************************************)
(* chrome.tabs.onRemoved and processRemoveQueue.  The timer is a pending   *)
(* flag: it can fire at any later moment, and a tab-removed event that     *)
(* finds it pending cancels and restarts it.                               *)
(***************************************************************************)
\* the listener: queue the id and restart the timer.  The window, and the panel
\* with it, lives as long as it has a tab.
TabRemoved(t) ==
    /\ events < MaxEvents
    /\ events' = events + 1
    /\ t \in Range(hostOrder)
    /\ Len(hostOrder) > 1
    /\ hostOrder' = SelectSeq(hostOrder, LAMBDA x : x # t)
    /\ IF pc = "ready"
       THEN /\ removeQueue' = Append(removeQueue, t)
            /\ removeTimeout' = TRUE
            /\ burst' = IF removeTimeout THEN Append(burst, t) ELSE <<t>>
       ELSE UNCHANGED <<removeQueue, removeTimeout, burst>>
    /\ UNCHANGED <<nextTabId, storeVars, pc, items, tabData, customNames, savedSessions,
                   restoreVars, passes, autosaveVars, selVars, nextGroupId, created, conts,
                   historyVars, workerVars, lastOp, sessionOp>>

\* a pass that takes the first queued removal only
TakeBatchHead(q) == <<Head(q)>>

\* the batch a pass takes from the queue
TakeBatch(q) == q

Pass(batch, at, nw, ni, wrote) ==
    [batch |-> batch, pc |-> at, writes |-> nw, itemsWrites |-> ni, wrote |-> wrote,
     burst |-> burst]

\* the timer fires: processRemoveQueue up to its first await, which is the
\* customNames write when a tab of the batch had a name and saveItems otherwise
RemoveTimerFires ==
    /\ removeTimeout
    /\ IF removeQueue = <<>>
       THEN /\ removeTimeout' = FALSE
            /\ UNCHANGED <<removeQueue, passes, items, tabData, customNames, selectedTabs,
                           keyboardFocusedTabId, stItems, stNames, notifs>>
       ELSE LET tabIds == TakeBatch(removeQueue)
                removedSet == Range(tabIds)
                customNamesChanged == customNames \cap removedSet # {}
            IN  /\ removeQueue' = <<>>
                /\ removeTimeout' = FALSE
                /\ tabData' = tabData \ removedSet
                /\ selectedTabs' = SelectSeq(selectedTabs, LAMBDA id : id \notin removedSet)
                /\ keyboardFocusedTabId' =
                      IF keyboardFocusedTabId \in removedSet THEN 0 ELSE keyboardFocusedTabId
                /\ items' = RemoveFilter(items, removedSet)
                /\ customNames' = customNames \ removedSet
                /\ IF customNamesChanged
                   THEN /\ stNames' = customNames'
                        /\ notifs' = AfterNamesWrite(customNames')
                        /\ passes' = passes \cup {Pass(tabIds, "names", 1, 0, <<>>)}
                        /\ UNCHANGED stItems
                   ELSE /\ stItems' = items'
                        /\ notifs' = AfterItemsWrite(items')
                        /\ passes' = passes \cup {Pass(tabIds, "save", 1, 1, items')}
                        /\ UNCHANGED stNames
    /\ UNCHANGED <<browserVars, stSessions, stTabOrder, settings, pc, savedSessions,
                   restoreVars, burst, autosaveVars, lastClickedTab, menu, nextGroupId,
                   created, conts, historyVars, events, workerVars, lastOp, sessionOp>>

\* what saveItems writes: the module's items at the moment of the call
saveItems(its) == its

\* the customNames write has returned: saveItems
PassSaveItems(p) ==
    /\ p \in passes
    /\ p.pc = "names"
    /\ stItems' = saveItems(items)
    /\ notifs' = AfterItemsWrite(stItems')
    /\ passes' = (passes \ {p}) \cup
                 {[p EXCEPT !.pc = "save", !.writes = @ + 1, !.itemsWrites = @ + 1,
                            !.wrote = stItems']}
    /\ UNCHANGED <<browserVars, stNames, stSessions, stTabOrder, settings, pc, items,
                   tabData, customNames, savedSessions, restoreVars, removeQueue,
                   removeTimeout, burst, autosaveVars, selVars, nextGroupId, created,
                   conts, historyVars, events, workerVars, lastOp, sessionOp>>

\* the groups of its that checkAutosaveForRemovedTabs queues, in root order
AutosaveGroups(its) ==
    LET gs == SelectSeq(its, LAMBDA it : ~IsTab(it) /\ it.autoSave /\ it.linkedSessionId # 0)
    IN  [i \in DOMAIN gs |-> gs[i].group]

\* saveItems has returned: render, checkAutosaveForRemovedTabs
PassFinish(p) ==
    /\ p \in passes
    /\ p.pc = "save"
    /\ passes' = passes \ {p}
    /\ queueAutosave(items, AutosaveGroups(items))
    /\ UNCHANGED <<browserVars, storeVars, pc, items, tabData, customNames, savedSessions,
                   restoreVars, removeQueue, removeTimeout, burst, selVars, nextGroupId,
                   created, conts, historyVars, events, workerVars, lastOp, sessionOp>>

(***************************************************************************)
(* chrome.storage.local.onChanged: the oldest undelivered notification.    *)
(* The listener replaces the module's value by the notification's; for     *)
(* items it then refreshes tabData from a tab query.  The new items is a   *)
(* copy: a group object that a suspended handler holds is no longer in it. *)
(***************************************************************************)
StorageChanged ==
    /\ notifs # <<>>
    /\ notifs' = Tail(notifs)
    /\ IF Head(notifs).key = "items"
       THEN /\ items' = Head(notifs).items
            /\ tabData' = tabData \cup Range(hostOrder)
            /\ UNCHANGED customNames
       ELSE /\ customNames' = Head(notifs).names
            /\ UNCHANGED <<items, tabData>>
    /\ sessionOp' = IF Head(notifs).key = "items" THEN [sessionOp EXCEPT !.object = FALSE]
                     ELSE sessionOp
    /\ UNCHANGED <<browserVars, stItems, stNames, stSessions, stTabOrder, settings, pc,
                   savedSessions, restoreVars, removeVars, autosaveVars, selVars,
                   nextGroupId, created, conts, historyVars, events, workerVars, lastOp>>

(***************************************************************************)
(* processAutosaveQueue: every queued group that is still in items, linked *)
(* to a session that still exists, has its session rewritten; one write.   *)
(***************************************************************************)
\* the session tabs of a group: its members that tabData has a URL for
SessionTabsOf(ts, data, names) ==
    LET have == SelectSeq(ts, LAMBDA id : id \in data)
    IN  [i \in DOMAIN have |-> SessionTab(have[i], have[i] \in names)]

RECURSIVE Autosaved(_, _, _, _, _)
Autosaved(ss, groupIds, its, data, names) ==
    IF groupIds = <<>> THEN ss
    ELSE LET i == FindGroup(its, Head(groupIds))
             sid == IF i = 0 THEN 0 ELSE its[i].linkedSessionId
             next == IF sid # 0 /\ ss[sid].exists
                     THEN [ss EXCEPT ![sid] = Session(its[i].autoSave,
                                                      SessionTabsOf(its[i].tabs, data, names))]
                     ELSE ss
         IN  Autosaved(next, Tail(groupIds), its, data, names)

AutosaveTimerFires ==
    /\ autosaveTimeout
    /\ autosaveTimeout' = FALSE
    /\ UNCHANGED coalesced
    /\ IF autosaveQueue = <<>>
       THEN UNCHANGED <<autosaveQueue, savedSessions, stSessions>>
       ELSE /\ autosaveQueue' = <<>>
            /\ savedSessions' = Autosaved(savedSessions, autosaveQueue, items, tabData,
                                          customNames)
            /\ stSessions' = savedSessions'
    /\ UNCHANGED <<browserVars, stItems, stNames, stTabOrder, settings, notifs, pc, items,
                   tabData, customNames, restoreVars, removeVars, selVars, nextGroupId,
                   created, conts, historyVars, events, workerVars, lastOp, sessionOp>>

(***************************************************************************)
(* The other tab events.                                                   *)
(***************************************************************************)
\* chrome.tabs.onActivated
TabActivated(t) ==
    /\ pc = "ready"
    /\ events < MaxEvents
    /\ t \in Range(hostOrder)
    /\ keyboardFocusedTabId' = t
    /\ events' = events + 1
    /\ UNCHANGED <<browserVars, storeVars, pc, items, tabData, customNames, savedSessions,
                   restoreVars, removeVars, autosaveVars, selectedTabs, lastClickedTab,
                   menu, nextGroupId, created, conts, historyVars, workerVars, lastOp,
                   sessionOp>>

\* chrome.tabs.onUpdated with a new url: autosave of the tab's group
TabNavigated(t) ==
    /\ pc = "ready"
    /\ events < MaxEvents
    /\ events' = events + 1
    /\ t \in Range(hostOrder) \cap tabData
    /\ getTabGroupId(items, t) # 0
    /\ queueAutosave(items, <<getTabGroupId(items, t)>>)
    /\ UNCHANGED <<browserVars, storeVars, pc, items, tabData, customNames, savedSessions,
                   restoreVars, removeVars, selVars, nextGroupId, created, conts,
                   historyVars, workerVars, lastOp, sessionOp>>

\* a listener that adopts the order of the tab bar
onMovedAdopt(its, order) == [i \in DOMAIN order |-> TabItem(order[i])]

\* what the panel does with its items when the tab bar is reordered: there is no
\* chrome.tabs.onMoved listener
onMoved(its, order) == its

\* the tab at i changes places with its right neighbour in the tab bar
TabMoved(i) ==
    /\ events < MaxEvents
    /\ i \in 1..(Len(hostOrder) - 1)
    /\ hostOrder' = [hostOrder EXCEPT ![i] = hostOrder[i + 1], ![i + 1] = hostOrder[i]]
    /\ events' = events + 1
    /\ items' = IF pc = "ready" THEN onMoved(items, hostOrder') ELSE items
    /\ UNCHANGED <<nextTabId, storeVars, pc, tabData, customNames, savedSessions,
                   restoreVars, removeVars, autosaveVars, selVars, nextGroupId, created,
                   conts, historyVars, workerVars, lastOp, sessionOp>>

(***************************************************************************)
(* promptRename, from the space key on the focused tab.                    *)
(***************************************************************************)
KeyRename ==
    /\ pc = "ready"
    /\ events < MaxEvents
    /\ ~menu.open
    /\ getAllTabIds(items) # <<>>
    /\ keyboardFocusedTabId # 0
    /\ keyboardFocusedTabId \in tabData
    /\ customNames' = customNames \cup {keyboardFocusedTabId}
    /\ stNames' = customNames'
    /\ notifs' = AfterNamesWrite(customNames')
    /\ conts' = conts \cup {[kind |-> "renamed", tab |-> keyboardFocusedTabId]}
    /\ events' = events + 1
    /\ UNCHANGED <<browserVars, stItems, stSessions, stTabOrder, settings, pc, items,
                   tabData, savedSessions, restoreVars, removeVars, autosaveVars, selVars,
                   nextGroupId, created, historyVars, workerVars, lastOp, sessionOp>>

\* the customNames write has returned: autosave of the tab's group
RenameSaved(c) ==
    /\ c \in conts
    /\ c.kind = "renamed"
    /\ conts' = conts \ {c}
    /\ queueAutosave(items, IF getTabGroupId(items, c.tab) # 0
                            THEN <<getTabGroupId(items, c.tab)>> ELSE <<>>)
    /\ UNCHANGED <<browserVars, storeVars, pc, items, tabData, customNames, savedSessions,
                   restoreVars, removeVars, selVars, nextGroupId, created, historyVars,
                   events, workerVars, lastOp, sessionOp>>

(***************************************************************************)
(* restoreSession.  The sessions of the model fit one batch (BATCH_SIZE is *)
(* 5), so the loop runs once: every tabs.create is issued, the browser     *)
(* creates the tabs one by one and fires tabs.onCreated for each, and the  *)
(* function resumes when Promise.allSettled has every result.              *)
(***************************************************************************)
\* a restoreSession that does not look for the session's group
LinkedGroupNone(its, sid) == 0

\* items.find(item => item.group && item.linkedSessionId === sessionId): the first
\* group linked to the session, 0 if none
LinkedGroup(its, sid) ==
    IF \E i \in DOMAIN its : ~IsTab(its[i]) /\ its[i].linkedSessionId = sid
    THEN CHOOSE i \in DOMAIN its :
            /\ ~IsTab(its[i]) /\ its[i].linkedSessionId = sid
            /\ \A j \in 1..(i - 1) : IsTab(its[j]) \/ its[j].linkedSessionId # sid
    ELSE 0

RestoreStart(sid) ==
    /\ pc = "ready"
    /\ events < MaxEvents
    /\ sid \in SessionIds
    /\ savedSessions[sid].exists
    /\ Len(savedSessions[sid].tabs) > 0
    /\ events' = events + 1
    /\ IF LinkedGroup(items, sid) # 0
       THEN /\ keyboardFocusedTabId' =
                  IF Len(items[LinkedGroup(items, sid)].tabs) > 0
                  THEN items[LinkedGroup(items, sid)].tabs[1] ELSE keyboardFocusedTabId
            /\ lastOp' = [NoOp EXCEPT !.name = "restoreFocus", !.group = sid]
            /\ UNCHANGED restores
       ELSE /\ restores' = restores \cup
                  {[sid |-> sid, session |-> savedSessions[sid], results |-> <<>>,
                    pc |-> "creating"]}
            /\ UNCHANGED <<keyboardFocusedTabId, lastOp>>
    /\ UNCHANGED <<browserVars, storeVars, pc, items, tabData, customNames, savedSessions,
                   restoringTabIds, restoredTabs, removeVars, autosaveVars, selectedTabs,
                   lastClickedTab, menu, nextGroupId, created, conts, historyVars,
                   workerVars, sessionOp>>

\* the browser creates the next tab of the batch; tabs.onCreated fires for it
RestoreTabCreated(r) ==
    /\ r \in restores
    /\ r.pc = "creating"
    /\ Len(r.results) < Len(r.session.tabs)
    /\ nextTabId <= MaxTabs
    /\ hostOrder' = Append(hostOrder, nextTabId)
    /\ nextTabId' = nextTabId + 1
    /\ tabData' = tabData \cup {nextTabId}
    /\ created' = created \cup {Handler(nextTabId, 0)}
    /\ restoredTabs' = restoredTabs \cup {nextTabId}
    /\ restores' = (restores \ {r}) \cup {[r EXCEPT !.results = Append(@, nextTabId)]}
    /\ UNCHANGED <<storeVars, pc, items, customNames, savedSessions, restoringTabIds,
                   removeVars, autosaveVars, selVars, nextGroupId, conts, historyVars,
                   events, workerVars, lastOp, sessionOp>>

\* RestoreTabFailed with the tabs the batch has created closed again
RestoreTabFailedClosing(r) ==
    /\ r \in restores
    /\ r.pc = "creating"
    /\ Len(r.results) < Len(r.session.tabs)
    /\ restores' = (restores \ {r}) \cup {[r EXCEPT !.results = Append(@, 0)]}
    /\ hostOrder' = SelectSeq(hostOrder, LAMBDA t : t \notin Range(r.results))
    /\ UNCHANGED <<nextTabId, storeVars, pc, items, tabData, customNames, savedSessions,
                   restoringTabIds, restoredTabs, removeVars, autosaveVars, selVars,
                   nextGroupId, created, conts, historyVars, events, workerVars, lastOp,
                   sessionOp>>

\* the next tabs.create of the batch is rejected (0 stands for the rejection)
RestoreTabFailed(r) ==
    /\ r \in restores
    /\ r.pc = "creating"
    /\ Len(r.results) < Len(r.session.tabs)
    /\ restores' = (restores \ {r}) \cup {[r EXCEPT !.results = Append(@, 0)]}
    /\ UNCHANGED <<browserVars, storeVars, pc, items, tabData, customNames, savedSessions,
                   restoringTabIds, restoredTabs, removeVars, autosaveVars, selVars,
                   nextGroupId, created, conts, historyVars, events, workerVars, lastOp,
                   sessionOp>>

\* allSettled is complete: mark the created tabs, build the group, push it; the
\* next await is the customNames write when a restored tab has a name, saveItems
\* otherwise
RestoreBatchDone(r) ==
    /\ r \in restores
    /\ r.pc = "creating"
    /\ Len(r.results) = Len(r.session.tabs)
    /\ LET createdTabIds == SelectSeq(r.results, LAMBDA id : id # 0)
           newCustomNames == {r.results[i] : i \in {j \in DOMAIN r.results :
                                  r.results[j] # 0 /\ r.session.tabs[j].customName}}
       IN  /\ restoringTabIds' = restoringTabIds \cup Range(createdTabIds)
           /\ tabData' = tabData \cup Range(createdTabIds)
           /\ IF Len(createdTabIds) = 0
              THEN /\ restores' = restores \ {r}
                   /\ UNCHANGED <<items, nextGroupId, customNames, stNames, stItems, notifs>>
              ELSE /\ items' = Append(items, GroupItem(nextGroupId, createdTabIds,
                                                       r.session.autoSave, r.sid))
                   /\ nextGroupId' = nextGroupId + 1
                   /\ IF newCustomNames # {}
                      THEN /\ customNames' = customNames \cup newCustomNames
                           /\ stNames' = customNames'
                           /\ notifs' = AfterNamesWrite(customNames')
                           /\ restores' = (restores \ {r}) \cup {[r EXCEPT !.pc = "names"]}
                           /\ UNCHANGED stItems
                      ELSE /\ stItems' = saveItems(items')
                           /\ notifs' = AfterItemsWrite(stItems')
                           /\ restores' = restores \ {r}
                           /\ UNCHANGED <<customNames, stNames>>
    /\ UNCHANGED <<browserVars, stSessions, stTabOrder, settings, pc, savedSessions,
                   restoredTabs, removeVars, autosaveVars, selVars, created, conts,
                   historyVars, events, workerVars, lastOp, sessionOp>>

\* the customNames write has returned: saveItems
RestoreSaveItems(r) ==
    /\ r \in restores
    /\ r.pc = "names"
    /\ stItems' = saveItems(items)
    /\ notifs' = AfterItemsWrite(stItems')
    /\ restores' = restores \ {r}
    /\ UNCHANGED <<browserVars, stNames, stSessions, stTabOrder, settings, pc, items,
                   tabData, customNames, savedSessions, restoringTabIds, restoredTabs,
                   removeVars, autosaveVars, selVars, nextGroupId, created, conts,
                   historyVars, events, workerVars, lastOp, sessionOp>>

(***************************************************************************)
(* The panel with its tab events, its queues and session restore.          *)
(***************************************************************************)
Next ==
    \/ InitLoad
    \/ InitSync
    \/ InitReady
    \/ \E o \in 0..MaxTabs : TabCreated(o)
    \/ \E h \in created : CreatedResume(h)
    \/ \E h \in created : CreatedSaved(h)
    \/ \E t \in 1..MaxTabs : TabRemoved(t)
    \/ RemoveTimerFires
    \/ \E p \in passes : PassSaveItems(p)
    \/ \E p \in passes : PassFinish(p)
    \/ StorageChanged
    \/ AutosaveTimerFires
    \/ \E t \in 1..MaxTabs : TabActivated(t)
    \/ \E t \in 1..MaxTabs : TabNavigated(t)
    \/ \E i \in 1..MaxTabs : TabMoved(i)
    \/ KeyRename
    \/ \E c \in conts : RenameSaved(c)
    \/ \E sid \in SessionIds : RestoreStart(sid)
    \/ \E r \in restores : RestoreTabCreated(r)
    \/ \E r \in restores : RestoreTabFailed(r)
    \/ \E r \in restores : RestoreBatchDone(r)
    \/ \E r \in restores : RestoreSaveItems(r)

Spec == Init /\ [][Next]_vars

(***************************************************************************)
(* The ordering model's mutators.                                          *)
(***************************************************************************)
\* the first item that is tabId or a group holding it loses it; a group left
\* without tabs goes with it
\* a removeTabFromItems that leaves the group it has emptied in items
removeTabFromItemsKeep(its, tabId) ==
    LET hits == {i \in DOMAIN its : IF IsTab(its[i]) THEN its[i].tab = tabId
                                    ELSE tabId \in Range(its[i].tabs)}
    IN  IF hits = {} THEN its
        ELSE LET i == CHOOSE k \in hits : \A j \in hits : k <= j
             IN  IF IsTab(its[i]) THEN RemoveAt(its, i)
                 ELSE [its EXCEPT ![i].tabs = RemoveAt(@, IndexOf(@, tabId))]

removeTabFromItems(its, tabId) ==
    LET hits == {i \in DOMAIN its : IF IsTab(its[i]) THEN its[i].tab = tabId
                                    ELSE tabId \in Range(its[i].tabs)}
    IN  IF hits = {} THEN its
        ELSE LET i == CHOOSE k \in hits : \A j \in hits : k <= j
                 rest == RemoveAt(its[i].tabs, IndexOf(its[i].tabs, tabId))
             IN  IF IsTab(its[i]) THEN RemoveAt(its, i)
                 ELSE IF Len(rest) = 0 THEN RemoveAt(its, i)
                 ELSE [its EXCEPT ![i].tabs = rest]

RECURSIVE RemoveEach(_, _)
RemoveEach(its, tabIds) ==
    IF tabIds = <<>> THEN its
    ELSE RemoveEach(removeTabFromItems(its, Head(tabIds)), Tail(tabIds))

\* createGroup: the new group takes the root index of the first of tabIds that is
\* a root item (the end of the list when none is), and holds tabIds in their order
createGroup(its, tabIds, g) ==
    LET rootAt == {i \in DOMAIN its : IsTab(its[i]) /\ its[i].tab \in Range(tabIds)}
        insertIndex == IF rootAt = {} THEN Len(its)
                       ELSE (CHOOSE k \in rootAt : \A j \in rootAt : k <= j) - 1
    IN  InsertAt(RemoveEach(its, tabIds), insertIndex, <<GroupItem(g, tabIds, FALSE, 0)>>)

\* ungroupTab with the tab put in front of the group instead of after it
ungroupTabBefore(its, tabId, groupId) ==
    LET groupIndex == FindGroup(its, groupId)
        tabIndex == IF groupIndex = 0 THEN 0 ELSE IndexOf(its[groupIndex].tabs, tabId)
        rest == RemoveAt(its[groupIndex].tabs, tabIndex)
        moved == InsertAt([its EXCEPT ![groupIndex].tabs = rest], groupIndex - 1,
                          <<TabItem(tabId)>>)
    IN  IF groupIndex = 0 \/ tabIndex = 0 THEN its
        ELSE IF Len(rest) = 0 THEN RemoveAt(moved, groupIndex + 1) ELSE moved

\* ungroupTab: the tab leaves the group and follows it at the root; the group goes
\* when that emptied it
ungroupTab(its, tabId, groupId) ==
    LET groupIndex == FindGroup(its, groupId)
        tabIndex == IF groupIndex = 0 THEN 0 ELSE IndexOf(its[groupIndex].tabs, tabId)
        rest == RemoveAt(its[groupIndex].tabs, tabIndex)
        moved == InsertAt([its EXCEPT ![groupIndex].tabs = rest], groupIndex, <<TabItem(tabId)>>)
    IN  IF groupIndex = 0 \/ tabIndex = 0 THEN its
        ELSE IF Len(rest) = 0 THEN RemoveAt(moved, groupIndex) ELSE moved

(***************************************************************************)
(* Clicks on the rendered tab rows.  render() draws a row for a tab that   *)
(* is in items and has a tabData entry; a click anywhere closes an open    *)
(* context menu.                                                           *)
(***************************************************************************)
Rendered(t) == t \in TabSet(items) /\ t \in tabData

\* selectedTabs.add(x) for each x of xs in turn
RECURSIVE AddAll(_, _)
AddAll(sel, xs) ==
    IF xs = <<>> THEN sel
    ELSE AddAll(IF Head(xs) \in Range(sel) THEN sel ELSE Append(sel, Head(xs)), Tail(xs))

\* the range branch for a clicked tab that follows the last-clicked one only
RangeSelectForward(sel, all, last, t) ==
    LET startIdx == IndexOf(all, last)
        endIdx == IndexOf(all, t)
    IN  IF startIdx # 0 /\ endIdx # 0 THEN AddAll(sel, SubSeq(all, startIdx, endIdx)) ELSE sel

\* the range branch of handleTabClick
RangeSelect(sel, all, last, t) ==
    LET startIdx == IndexOf(all, last)
        endIdx == IndexOf(all, t)
        from == IF startIdx < endIdx THEN startIdx ELSE endIdx
        to == IF startIdx < endIdx THEN endIdx ELSE startIdx
    IN  IF startIdx # 0 /\ endIdx # 0 THEN AddAll(sel, SubSeq(all, from, to)) ELSE sel

\* the toggle branch without the implicit last-clicked tab
ToggleSelectAlone(sel, last, t) ==
    IF t \in Range(sel) THEN SelectSeq(sel, LAMBDA x : x # t) ELSE AddAll(sel, <<t>>)

\* the toggle branch of handleTabClick
ToggleSelect(sel, last, t) ==
    IF t \in Range(sel) THEN SelectSeq(sel, LAMBDA x : x # t)
    ELSE AddAll(sel, (IF Len(sel) = 0 /\ last # 0 /\ last # t THEN <<last>> ELSE <<>>) \o <<t>>)

UserStep ==
    /\ pc = "ready"
    /\ clicks < MaxClicks
    /\ clicks' = clicks + 1

\* handleTabClick with the shift key alone: the range branch when a tab was clicked
\* last, the branch of the normal click otherwise
ShiftClick(t) ==
    /\ UserStep
    /\ Rendered(t)
    /\ IF lastClickedTab # 0
       THEN /\ selectedTabs' = RangeSelect(selectedTabs, getAllTabIds(items),
                                           lastClickedTab, t)
            /\ UNCHANGED <<lastClickedTab, keyboardFocusedTabId>>
       ELSE /\ selectedTabs' = <<>>
            /\ lastClickedTab' = t
            /\ keyboardFocusedTabId' = t
    /\ menu' = NoMenu
    /\ UNCHANGED <<browserVars, storeVars, pc, items, tabData, customNames, savedSessions,
                   restoreVars, removeVars, autosaveVars, nextGroupId, created, conts,
                   handlerAdded, prevItems, events, workerVars, lastOp, sessionOp>>

\* handleTabClick with the ctrl or meta key
CtrlClick(t) ==
    /\ UserStep
    /\ Rendered(t)
    /\ selectedTabs' = ToggleSelect(selectedTabs, lastClickedTab, t)
    /\ lastClickedTab' = t
    /\ menu' = NoMenu
    /\ UNCHANGED <<browserVars, storeVars, pc, items, tabData, customNames, savedSessions,
                   restoreVars, removeVars, autosaveVars, keyboardFocusedTabId,
                   nextGroupId, created, conts, handlerAdded, prevItems, events,
                   workerVars, lastOp, sessionOp>>

\* handleTabClick with no modifier
PlainClick(t) ==
    /\ UserStep
    /\ Rendered(t)
    /\ selectedTabs' = <<>>
    /\ lastClickedTab' = t
    /\ keyboardFocusedTabId' = t
    /\ menu' = NoMenu
    /\ UNCHANGED <<browserVars, storeVars, pc, items, tabData, customNames, savedSessions,
                   restoreVars, removeVars, autosaveVars, nextGroupId, created, conts,
                   handlerAdded, prevItems, events, workerVars, lastOp, sessionOp>>

(***************************************************************************)
(* The tab context menu.  It keeps the tab it was opened on, that tab's    *)
(* group and whether several tabs were selected; what it acts on when an   *)
(* entry is clicked is the state of that later moment.                     *)
(***************************************************************************)
ContextMenu(t) ==
    /\ UserStep
    /\ Rendered(t)
    /\ selectedTabs' = IF t \in Range(selectedTabs) THEN selectedTabs ELSE <<t>>
    /\ menu' = [open |-> TRUE, tab |-> t, group |-> getTabGroupId(items, t),
                multi |-> Len(selectedTabs') > 1, named |-> t \in customNames]
    /\ UNCHANGED <<browserVars, storeVars, pc, items, tabData, customNames, savedSessions,
                   restoreVars, removeVars, autosaveVars, lastClickedTab,
                   keyboardFocusedTabId, nextGroupId, created, conts, handlerAdded,
                   prevItems, events, workerVars, lastOp, sessionOp>>

\* the state after createGroup(tabIds) up to its await on saveItems
CreateGroupStep(tabIds) ==
    /\ items' = createGroup(items, tabIds, nextGroupId)
    /\ nextGroupId' = nextGroupId + 1
    /\ stItems' = saveItems(items')
    /\ notifs' = AfterItemsWrite(stItems')
    /\ conts' = conts \cup {[kind |-> "grouped", tab |-> 0]}
    /\ menu' = NoMenu
    /\ UNCHANGED <<browserVars, stNames, stSessions, stTabOrder, settings, pc, tabData,
                   customNames, savedSessions, restoreVars, removeVars, autosaveVars,
                   selectedTabs, lastClickedTab, keyboardFocusedTabId, created,
                   handlerAdded, prevItems, events, workerVars, lastOp, sessionOp>>

\* "Create group" on the menu's tab
MenuCreateGroup ==
    /\ UserStep
    /\ menu.open /\ ~menu.multi /\ menu.group = 0
    /\ CreateGroupStep(<<menu.tab>>)

\* "Group N tabs": createGroup(Array.from(selectedTabs))
MenuGroupSelected ==
    /\ UserStep
    /\ menu.open /\ menu.multi
    /\ CreateGroupStep(selectedTabs)

\* saveItems has returned in createGroup: the selection is cleared
GroupSaved(c) ==
    /\ c \in conts
    /\ c.kind = "grouped"
    /\ conts' = conts \ {c}
    /\ selectedTabs' = <<>>
    /\ UNCHANGED <<browserVars, storeVars, pc, items, tabData, customNames, savedSessions,
                   restoreVars, removeVars, autosaveVars, lastClickedTab,
                   keyboardFocusedTabId, menu, nextGroupId, created, historyVars, events,
                   workerVars, lastOp, sessionOp>>

\* "Remove from group": ungroupTab(tabId, tabGroupId)
MenuUngroup ==
    /\ UserStep
    /\ menu.open /\ ~menu.multi /\ menu.group # 0
    /\ items' = ungroupTab(items, menu.tab, menu.group)
    /\ IF \/ FindGroup(items, menu.group) = 0
          \/ menu.tab \notin Range(items[FindGroup(items, menu.group)].tabs)
       THEN UNCHANGED <<stItems, notifs>>
       ELSE /\ stItems' = saveItems(items')
            /\ notifs' = AfterItemsWrite(stItems')
    /\ menu' = NoMenu
    /\ UNCHANGED <<browserVars, stNames, stSessions, stTabOrder, settings, pc, tabData,
                   customNames, savedSessions, restoreVars, removeVars, autosaveVars,
                   selectedTabs, lastClickedTab, keyboardFocusedTabId, nextGroupId,
                   created, conts, handlerAdded, prevItems, events, workerVars, lastOp,
                   sessionOp>>

\* chrome.tabs.remove(ids): the browser closes those of the tabs that are open and
\* fires tabs.onRemoved for each
CloseTabs(ids) ==
    LET open == SelectSeq(ids, LAMBDA t : t \in Range(hostOrder))
    IN  /\ Len(open) > 0
        /\ Range(hostOrder) \ Range(open) # {}
        /\ hostOrder' = SelectSeq(hostOrder, LAMBDA x : x \notin Range(open))
        /\ removeQueue' = removeQueue \o open
        /\ removeTimeout' = TRUE
        /\ burst' = IF removeTimeout THEN burst \o open ELSE open
        /\ menu' = NoMenu
        /\ UNCHANGED <<nextTabId, storeVars, pc, items, tabData, customNames,
                       savedSessions, restoreVars, passes, autosaveVars, selectedTabs,
                       lastClickedTab, keyboardFocusedTabId, nextGroupId, created, conts,
                       handlerAdded, prevItems, events, workerVars, lastOp, sessionOp>>

\* "Close tab"
MenuClose ==
    /\ UserStep
    /\ menu.open /\ ~menu.multi
    /\ CloseTabs(<<menu.tab>>)

\* "Close N tabs": chrome.tabs.remove(Array.from(selectedTabs))
MenuCloseSelected ==
    /\ UserStep
    /\ menu.open /\ menu.multi
    /\ CloseTabs(selectedTabs)

(***************************************************************************)
(* The panel with its tab events, its removal queue and the user's clicks  *)
(* on tab rows and on the tab context menu.                                *)
(***************************************************************************)
NextUI ==
    \/ \E t \in 1..MaxTabs : TabRemoved(t)
    \/ RemoveTimerFires
    \/ \E p \in passes : PassSaveItems(p)
    \/ \E p \in passes : PassFinish(p)
    \/ StorageChanged
    \/ AutosaveTimerFires
    \/ \E t \in 1..MaxTabs : ShiftClick(t)
    \/ \E t \in 1..MaxTabs : CtrlClick(t)
    \/ \E t \in 1..MaxTabs : PlainClick(t)
    \/ \E t \in 1..MaxTabs : ContextMenu(t)
    \/ MenuCreateGroup
    \/ MenuGroupSelected
    \/ \E c \in conts : GroupSaved(c)
    \/ MenuUngroup
    \/ MenuClose
    \/ MenuCloseSelected

SpecUI == InitOpened /\ [][NextUI]_vars

(***************************************************************************)
(* Startup sync on its own: init has loaded some persisted model, the      *)
(* window holds some tabs, and syncItemsWithTabs runs on the query's       *)
(* answer and then once more on the same answer.                           *)
(***************************************************************************)
SyncModels ==
    LET ids == 1..SyncTabs
        elems == {TabItem(t) : t \in ids} \cup
                 {GroupItem(1, ts, FALSE, 0) : ts \in SeqsUpTo(ids, SyncGroupLen)}
    IN  SeqsUpTo(elems, SyncLen)

InitLoaded ==
    /\ hostOrder \in {h \in SeqsUpTo(1..SyncTabs, SyncTabs) : NoDup(h)}
    /\ nextTabId = SyncTabs + 1
    /\ settings \in {"top", "bottom"}
    /\ items \in SyncModels
    /\ stItems = items
    /\ stNames = {}
    /\ stSessions = [s \in SessionIds |-> NoSession]
    /\ stTabOrder = UsedStore.tabOrder
    /\ pc = "query"
    /\ tabData = {}
    /\ customNames = {}
    /\ savedSessions = stSessions
    /\ selectedTabs = <<>>
    /\ Idle

\* syncItemsWithTabs(tabs) called again with the tabs of the same query
SyncAgain ==
    /\ pc = "sync"
    /\ pc' = "resynced"
    /\ items' = syncItemsWithTabs(items, hostOrder, settings)
    /\ stItems' = saveItems(items')
    /\ prevItems' = items
    /\ UNCHANGED <<browserVars, stNames, stSessions, stTabOrder, settings, notifs, tabData,
                   customNames, savedSessions, restoreVars, removeVars, autosaveVars,
                   selVars, nextGroupId, created, conts, handlerAdded, events, clicks,
                   workerVars, lastOp, sessionOp>>

NextSync ==
    \/ InitSync
    \/ SyncAgain

SpecSync == InitLoaded /\ [][NextSync]_vars

(***************************************************************************)
(* Gestures on the list: drags, dissolveGroup, ungroupTab and createGroup, *)
(* each run once on some model of OpTabs tabs with some selection.  The    *)
(* ids a gesture is given come from rows drawn at the last render, so they *)
(* may name a tab or a group that items no longer holds.                   *)
(***************************************************************************)
\* tabIds.sort((a, b) => allTabIds.indexOf(a) - allTabIds.indexOf(b))
SortByIndex(tabIds, all) ==
    LET n == Len(tabIds)
        key(i) == IndexOf(all, tabIds[i])
        rank(i) == Cardinality({j \in 1..n : \/ key(j) < key(i)
                                             \/ key(j) = key(i) /\ j < i}) + 1
    IN  [k \in 1..n |-> tabIds[CHOOSE i \in 1..n : rank(i) = k]]

\* the drop: tabIds spliced into the tabs of group toGroupId, when items holds
\* it, or into the root when toGroupId is null
DropAt(its, tabIds, toGroupId, index) ==
    IF toGroupId # 0
    THEN IF FindGroup(its, toGroupId) = 0 THEN its
         ELSE [its EXCEPT ![FindGroup(its, toGroupId)].tabs = InsertAt(@, index, tabIds)]
    ELSE InsertAt(its, index, [i \in DOMAIN tabIds |-> TabItem(tabIds[i])])

\* the groups the dragged tabs were in: a Set, in insertion order
SourceGroupIds(its, tabIds) ==
    AddAll(<<>>, SelectSeq([i \in DOMAIN tabIds |-> getTabGroupId(its, tabIds[i])],
                           LAMBDA g : g # 0))

\* handleMultiDrag, up to its await on saveItems
handleMultiDrag(its, tabIds, toGroupId, insertIndex) ==
    LET orderedTabIds == SortByIndex(tabIds, getAllTabIds(its))
    IN  DropAt(RemoveEach(its, orderedTabIds), orderedTabIds, toGroupId, insertIndex)

\* handleDragEnd for one tab, up to its await on saveItems
handleDragEnd(its, tabId, toGroupId, newIndex) ==
    DropAt(removeTabFromItems(its, tabId), <<tabId>>, toGroupId, newIndex)

\* a dissolveGroup that puts the members back in reverse
dissolveGroupReversed(its, groupId) ==
    LET groupIndex == FindGroup(its, groupId)
        tabs == Reverse(its[groupIndex].tabs)
    IN  IF groupIndex = 0 THEN its
        ELSE InsertAt(RemoveAt(its, groupIndex), groupIndex - 1,
                      [i \in DOMAIN tabs |-> TabItem(tabs[i])])

\* dissolveGroup, up to its await on saveItems
dissolveGroup(its, groupId) ==
    LET groupIndex == FindGroup(its, groupId)
    IN  IF groupIndex = 0 THEN its
        ELSE InsertAt(RemoveAt(its, groupIndex), groupIndex - 1,
                      [i \in DOMAIN its[groupIndex].tabs |-> TabItem(its[groupIndex].tabs[i])])

\* group 1 is saved as session 1 with autosave on; group 2 is a plain group
OpGroup(g, ts) == GroupItem(g, ts, g = 1, IF g = 1 THEN 1 ELSE 0)

\* the models of OpTabs open tabs: every tab once, no group empty, no group id twice
OpModels ==
    LET ids == 1..OpTabs
        elems == {TabItem(t) : t \in ids} \cup
                 {OpGroup(g, ts) : g \in 1..2,
                                   ts \in {q \in SeqsUpTo(ids, OpTabs) : q # <<>> /\ NoDup(q)}}
    IN  {m \in SeqsUpTo(elems, OpTabs) :
            /\ NoDup(getAllTabIds(m))
            /\ TabSet(m) = ids
            /\ \A i, j \in DOMAIN m : (i # j /\ ~IsTab(m[i]) /\ ~IsTab(m[j]))
                                         => m[i].group # m[j].group}

InitModel ==
    /\ hostOrder = [i \in 1..OpTabs |-> i]
    /\ nextTabId = OpTabs + 2
    /\ settings = "bottom"
    /\ items \in OpModels
    /\ stItems = items
    /\ stNames = {}
    /\ stSessions = UsedStore.sessions
    /\ stTabOrder = UsedStore.tabOrder
    /\ pc = "ready"
    /\ tabData = Range(hostOrder)
    /\ customNames = {}
    /\ savedSessions = stSessions
    /\ Idle
    /\ selectedTabs \in {q \in SeqsUpTo(1..OpTabs, OpTabs) : NoDup(q)}

\* a gesture starts: the panel is ready and no gesture has run yet
GestureStart ==
    /\ pc = "ready"
    /\ lastOp = NoOp

\* what a gesture that reaches saveItems does to the store
GestureSave ==
    /\ stItems' = saveItems(items')
    /\ notifs' = AfterItemsWrite(stItems')

\* handleDragEnd: one tab, not part of a multi-selection, dropped on the root
\* list (to = 0) or on the list of group `to`, at index idx
DropTab(t, to, idx) ==
    /\ GestureStart
    /\ t \in TabSet(items)
    /\ ~(t \in Range(selectedTabs) /\ Len(selectedTabs) > 1)
    /\ items' = handleDragEnd(items, t, to, idx)
    /\ GestureSave
    /\ lastOp' = [name |-> "drag", pc |-> "save", tabs |-> <<t>>, group |-> to,
                  srcs |-> SourceGroupIds(items, <<t>>), index |-> idx, before |-> items]
    /\ UNCHANGED <<browserVars, stNames, stSessions, stTabOrder, settings, pc, tabData,
                   customNames, savedSessions, restoreVars, removeVars, autosaveVars,
                   selVars, nextGroupId, created, conts, historyVars, events, workerVars,
                   sessionOp>>

\* handleDragEnd: a tab of a multi-selection is dropped: handleMultiDrag
DropSelection(t, to, idx) ==
    /\ GestureStart
    /\ t \in TabSet(items)
    /\ t \in Range(selectedTabs) /\ Len(selectedTabs) > 1
    /\ items' = handleMultiDrag(items, selectedTabs, to, idx)
    /\ GestureSave
    /\ lastOp' = [name |-> "multiDrag", pc |-> "save", tabs |-> selectedTabs, group |-> to,
                  srcs |-> SourceGroupIds(items, SortByIndex(selectedTabs,
                                                              getAllTabIds(items))),
                  index |-> idx, before |-> items]
    /\ UNCHANGED <<browserVars, stNames, stSessions, stTabOrder, settings, pc, tabData,
                   customNames, savedSessions, restoreVars, removeVars, autosaveVars,
                   selVars, nextGroupId, created, conts, historyVars, events, workerVars,
                   sessionOp>>

\* "Ungroup all" of the group context menu: dissolveGroup(g)
OpDissolve(g) ==
    /\ GestureStart
    /\ items' = dissolveGroup(items, g)
    /\ IF FindGroup(items, g) = 0
       THEN UNCHANGED <<stItems, notifs>>
       ELSE GestureSave
    /\ lastOp' = [name |-> "dissolve", pc |-> IF FindGroup(items, g) = 0 THEN "done" ELSE "save",
                  tabs |-> <<>>, group |-> g, srcs |-> <<>>, index |-> 0, before |-> items]
    /\ UNCHANGED <<browserVars, stNames, stSessions, stTabOrder, settings, pc, tabData,
                   customNames, savedSessions, restoreVars, removeVars, autosaveVars,
                   selVars, nextGroupId, created, conts, historyVars, events, workerVars,
                   sessionOp>>

\* "Remove from group" of the tab context menu: ungroupTab(t, g)
OpUngroup(t, g) ==
    /\ GestureStart
    /\ items' = ungroupTab(items, t, g)
    /\ IF \/ FindGroup(items, g) = 0
          \/ t \notin Range(items[FindGroup(items, g)].tabs)
       THEN /\ lastOp' = [name |-> "ungroup", pc |-> "done", tabs |-> <<t>>, group |-> g,
                          srcs |-> <<>>, index |-> 0, before |-> items]
            /\ UNCHANGED <<stItems, notifs>>
       ELSE /\ lastOp' = [name |-> "ungroup", pc |-> "save", tabs |-> <<t>>, group |-> g,
                          srcs |-> <<>>, index |-> 0, before |-> items]
            /\ GestureSave
    /\ UNCHANGED <<browserVars, stNames, stSessions, stTabOrder, settings, pc, tabData,
                   customNames, savedSessions, restoreVars, removeVars, autosaveVars,
                   selVars, nextGroupId, created, conts, historyVars, events, workerVars,
                   sessionOp>>

\* "Create group" and "Group N tabs" of the tab context menu: createGroup(tabIds)
OpCreateGroup(tabIds) ==
    /\ GestureStart
    /\ items' = createGroup(items, tabIds, nextGroupId)
    /\ nextGroupId' = nextGroupId + 1
    /\ GestureSave
    /\ lastOp' = [name |-> "createGroup", pc |-> "save", tabs |-> tabIds,
                  group |-> nextGroupId, srcs |-> <<>>, index |-> 0, before |-> items]
    /\ UNCHANGED <<browserVars, stNames, stSessions, stTabOrder, settings, pc, tabData,
                   customNames, savedSessions, restoreVars, removeVars, autosaveVars,
                   selVars, created, conts, historyVars, events, workerVars, sessionOp>>

\* saveItems has returned in the gesture's handler: what the handler does then
OpSaved ==
    /\ lastOp.pc = "save"
    /\ lastOp' = [lastOp EXCEPT !.pc = "done"]
    /\ selectedTabs' = IF lastOp.name \in {"multiDrag", "createGroup"} THEN <<>>
                       ELSE selectedTabs
    /\ IF lastOp.name \in {"drag", "multiDrag"}
       THEN queueAutosave(items, lastOp.srcs \o
                                 (IF lastOp.group # 0 /\ lastOp.group \notin Range(lastOp.srcs)
                                  THEN <<lastOp.group>> ELSE <<>>))
       ELSE UNCHANGED autosaveVars
    /\ UNCHANGED <<browserVars, storeVars, pc, items, tabData, customNames, savedSessions,
                   restoreVars, removeVars, lastClickedTab, keyboardFocusedTabId, menu,
                   nextGroupId, created, conts, historyVars, events, workerVars, sessionOp>>

NextOps ==
    \/ \E t \in 1..OpTabs, to \in 0..3, idx \in 0..OpTabs : DropTab(t, to, idx)
    \/ \E t \in 1..OpTabs, to \in 0..3, idx \in 0..OpTabs : DropSelection(t, to, idx)
    \/ \E g \in 1..3 : OpDissolve(g)
    \/ \E t \in 1..(OpTabs + 1), g \in 1..3 : OpUngroup(t, g)
    \/ \E t \in 1..(OpTabs + 1) : OpCreateGroup(<<t>>)
    \/ OpCreateGroup(selectedTabs)
    \/ OpSaved
    \/ StorageChanged

SpecOps == InitModel /\ [][NextOps]_vars

(***************************************************************************)
(* The panel is closed and opened again: its page is discarded with every  *)
(* handler, timer and listener it had, and init() runs in a new page on    *)
(* what the store holds.                                                   *)
(***************************************************************************)
\* the panel that is closed has loaded the store, and has persisted items if the
\* store had none
PanelReopened ==
    /\ lastOp = NoOp
    /\ pc # "load"
    /\ lastOp' = [NoOp EXCEPT !.name = "reopen"]
    /\ pc' = "load"
    /\ items' = <<>>
    /\ tabData' = {}
    /\ customNames' = {}
    /\ savedSessions' = [s \in SessionIds |-> NoSession]
    /\ restoringTabIds' = {}
    /\ removeQueue' = <<>>
    /\ removeTimeout' = FALSE
    /\ autosaveQueue' = <<>>
    /\ autosaveTimeout' = FALSE
    /\ selectedTabs' = <<>>
    /\ lastClickedTab' = 0
    /\ keyboardFocusedTabId' = 0
    /\ menu' = NoMenu
    /\ notifs' = <<>>
    /\ created' = {}
    /\ passes' = {}
    /\ restores' = {}
    /\ conts' = {}
    /\ burst' = <<>>
    /\ coalesced' = FALSE
    /\ handlerAdded' = {}
    /\ restoredTabs' = {}
    /\ prevItems' = <<>>
    /\ UNCHANGED <<browserVars, stItems, stNames, stSessions, stTabOrder, settings,
                   nextGroupId, events, clicks, workerVars, sessionOp>>

NextReopen ==
    \/ InitLoad
    \/ InitSync
    \/ InitReady
    \/ PanelReopened
    \/ \E o \in 0..MaxTabs : TabCreated(o)
    \/ \E h \in created : CreatedResume(h)
    \/ \E h \in created : CreatedSaved(h)
    \/ \E t \in 1..MaxTabs : TabRemoved(t)
    \/ RemoveTimerFires
    \/ \E p \in passes : PassSaveItems(p)
    \/ \E p \in passes : PassFinish(p)
    \/ StorageChanged
    \/ AutosaveTimerFires

SpecReopen == Init /\ [][NextReopen]_vars

(***************************************************************************)
(* Backup (src/options.js).  Export writes every key of the store into a   *)
(* file; import clears the store and sets the keys of the file.  The panel *)
(* is reopened afterwards: init() runs on the imported store.              *)
(***************************************************************************)
\* what chrome.storage.local.get(null) gives for a store
StoreData(its, names, sessions, tabOrder, position) ==
    [items |-> its, customNames |-> names, savedSessions |-> sessions,
     tabOrder |-> tabOrder, settings |-> position]

\* the export button: the file that is downloaded
ExportBackup(data) == [version |-> 1, data |-> data]

\* chrome.storage.local.clear(): no key is left; a reader sees its defaults
ClearedStore ==
    StoreData(<<>>, {}, [s \in SessionIds |-> NoSession], UsedStore.tabOrder, "bottom")

\* an import that sets the keys of the file and leaves the list of the store alone
ImportKeepingItems(backup, old) ==
    IF backup.version = 0 THEN old
    ELSE [backup.data EXCEPT !.items = old.items]

\* the import handler, confirmed: the store after clear() and set(backup.data)
ImportBackup(backup, old) ==
    IF backup.version = 0 THEN old
    ELSE [k \in DOMAIN ClearedStore |->
             IF k \in DOMAIN backup.data THEN backup.data[k] ELSE ClearedStore[k]]

\* the states a backup is exported from: every tab once, no group empty, one group
BackupModels ==
    {m \in SyncModels :
        /\ NoDup(getAllTabIds(m))
        /\ \A g \in Groups(m) : Len(g.tabs) > 0
        /\ Cardinality({i \in DOMAIN m : ~IsTab(m[i])}) <= 1}

\* a backup has been exported from one store and imported over another; the panel
\* is opened on the result
InitImported ==
    /\ hostOrder \in {h \in SeqsUpTo(1..SyncTabs, SyncTabs) : NoDup(h)}
    /\ nextTabId = SyncTabs + 1
    /\ \E m \in BackupModels, position \in {"top", "bottom"}, old \in InitStores,
          legacy \in {FreshStore.tabOrder, UsedStore.tabOrder} :
          LET from == StoreData(m, {}, UsedStore.sessions, legacy, position)
              over == StoreData(old.items, old.names, old.sessions, old.tabOrder, "bottom")
              now == ImportBackup(ExportBackup(from), over)
          IN  /\ stItems = now.items
              /\ stNames = now.customNames
              /\ stSessions = now.savedSessions
              /\ stTabOrder = now.tabOrder
              /\ settings = now.settings
              /\ lastOp = [NoOp EXCEPT !.name = "import", !.before = m]
    /\ pc = "load"
    /\ items = <<>>
    /\ tabData = {}
    /\ customNames = {}
    /\ savedSessions = [s \in SessionIds |-> NoSession]
    /\ selectedTabs = <<>>
    /\ sessionOp = NoSessionOp
    /\ IdleLists

NextBackup ==
    \/ InitLoad
    \/ InitSync

SpecBackup == InitImported /\ [][NextBackup]_vars

(***************************************************************************)
(* Saved sessions: "Save session" of the group menu, saveGroupAsSession,   *)
(* and the delete button of the sessions view, deleteSession.  A handler   *)
(* that is suspended keeps the group object it was given; the object is in *)
(* items until the storage listener replaces items by a copy.              *)
(***************************************************************************)
\* crypto.randomUUID(): the id no session has had
FreshSessionId == 2

\* a click in the panel that starts a session handler; the one before it is over
SessionGestureStart ==
    /\ pc = "ready"
    /\ sessionOp.pc = "done"
    /\ clicks < MaxClicks
    /\ clicks' = clicks + 1

\* the handler's group object is an element of items
InItems(op) == op.object /\ FindGroup(items, op.group) # 0

\* saveGroupAsSession(group), up to its first await: the settings read when the
\* group is not linked and has no autoSave, the savedSessions write otherwise
SaveSession(g) ==
    /\ SessionGestureStart
    /\ FindGroup(items, g) # 0
    /\ LET group == items[FindGroup(items, g)]
           isUpdate == group.linkedSessionId # 0
           sessionId == IF isUpdate THEN group.linkedSessionId ELSE FreshSessionId
           sessionTabs == SessionTabsOf(group.tabs, tabData, customNames)
           op == [name |-> "save", pc |-> "settings", group |-> g, sid |-> sessionId,
                  tabs |-> sessionTabs, auto |-> group.autoSave, object |-> TRUE]
       IN  /\ isUpdate \/ /\ ~savedSessions[FreshSessionId].exists
                          /\ \A h \in Groups(items) \cup Groups(stItems) :
                                h.linkedSessionId # FreshSessionId
           /\ IF ~isUpdate /\ ~group.autoSave
              THEN /\ sessionOp' = op
                   /\ UNCHANGED <<savedSessions, stSessions>>
              ELSE /\ sessionOp' = [op EXCEPT !.pc = "set"]
                   /\ savedSessions' = [savedSessions EXCEPT
                                           ![sessionId] = Session(group.autoSave, sessionTabs)]
                   /\ stSessions' = savedSessions'
    /\ UNCHANGED <<browserVars, stItems, stNames, stTabOrder, settings, notifs, pc, items,
                   tabData, customNames, restoreVars, removeVars, autosaveVars, selVars,
                   nextGroupId, created, conts, handlerAdded, prevItems, events,
                   workerVars, lastOp>>

\* the settings have been read: group.autoSave is set, the session is written
SaveSettingsRead(defaultAutoSave) ==
    /\ sessionOp.name = "save"
    /\ sessionOp.pc = "settings"
    /\ sessionOp' = [sessionOp EXCEPT !.pc = "set", !.auto = defaultAutoSave]
    /\ items' = IF InItems(sessionOp)
                THEN [items EXCEPT ![FindGroup(items, sessionOp.group)].autoSave =
                                       defaultAutoSave]
                ELSE items
    /\ savedSessions' = [savedSessions EXCEPT
                            ![sessionOp.sid] = Session(defaultAutoSave, sessionOp.tabs)]
    /\ stSessions' = savedSessions'
    /\ UNCHANGED <<browserVars, stItems, stNames, stTabOrder, settings, notifs, pc, tabData,
                   customNames, restoreVars, removeVars, autosaveVars, selVars,
                   nextGroupId, created, conts, historyVars, events, workerVars, lastOp>>

\* the savedSessions write has returned: the group object is linked, saveItems
SaveStored ==
    /\ sessionOp.name = "save"
    /\ sessionOp.pc = "set"
    /\ sessionOp' = [sessionOp EXCEPT !.pc = "save"]
    /\ items' = IF InItems(sessionOp)
                THEN [items EXCEPT ![FindGroup(items, sessionOp.group)].linkedSessionId =
                                       sessionOp.sid]
                ELSE items
    /\ stItems' = saveItems(items')
    /\ notifs' = AfterItemsWrite(stItems')
    /\ UNCHANGED <<browserVars, stNames, stSessions, stTabOrder, settings, pc, tabData,
                   customNames, savedSessions, restoreVars, removeVars, autosaveVars,
                   selVars, nextGroupId, created, conts, historyVars, events, workerVars,
                   lastOp>>

\* saveItems has returned: render, and the handler is over
SaveLinked ==
    /\ sessionOp.name = "save"
    /\ sessionOp.pc = "save"
    /\ sessionOp' = [sessionOp EXCEPT !.pc = "done", !.object = FALSE]
    /\ UNCHANGED <<browserVars, storeVars, pc, items, tabData, customNames, savedSessions,
                   restoreVars, removeVars, autosaveVars, selVars, nextGroupId, created,
                   conts, historyVars, events, workerVars, lastOp>>

\* items.forEach of deleteSession: the link to sessionId is deleted from every group
ClearLinks(its, sessionId) ==
    [i \in DOMAIN its |->
        IF ~IsTab(its[i]) /\ its[i].linkedSessionId = sessionId
        THEN [its[i] EXCEPT !.linkedSessionId = 0] ELSE its[i]]

\* deleteSession(sessionId), confirmed, up to its await on the savedSessions write
DeleteSession(sessionId) ==
    /\ SessionGestureStart
    /\ sessionId # FreshSessionId
    /\ savedSessions[sessionId].exists
    /\ sessionOp' = [NoSessionOp EXCEPT !.name = "delete", !.pc = "set", !.sid = sessionId]
    /\ savedSessions' = [savedSessions EXCEPT ![sessionId] = NoSession]
    /\ stSessions' = savedSessions'
    /\ UNCHANGED <<browserVars, stItems, stNames, stTabOrder, settings, notifs, pc, items,
                   tabData, customNames, restoreVars, removeVars, autosaveVars, selVars,
                   nextGroupId, created, conts, handlerAdded, prevItems, events,
                   workerVars, lastOp>>

\* the savedSessions write has returned: the links are cleared, and items is saved
\* when a group had one
DeleteCleared ==
    /\ sessionOp.name = "delete"
    /\ sessionOp.pc = "set"
    /\ items' = ClearLinks(items, sessionOp.sid)
    /\ IF \E g \in Groups(items) : g.linkedSessionId = sessionOp.sid
       THEN /\ stItems' = saveItems(items')
            /\ notifs' = AfterItemsWrite(stItems')
            /\ sessionOp' = [sessionOp EXCEPT !.pc = "save"]
       ELSE /\ sessionOp' = [sessionOp EXCEPT !.pc = "done"]
            /\ UNCHANGED <<stItems, notifs>>
    /\ UNCHANGED <<browserVars, stNames, stSessions, stTabOrder, settings, pc, tabData,
                   customNames, savedSessions, restoreVars, removeVars, autosaveVars,
                   selVars, nextGroupId, created, conts, historyVars, events, workerVars,
                   lastOp>>

\* saveItems has returned: renderSessions, and deleteSession is over
DeleteSaved ==
    /\ sessionOp.name = "delete"
    /\ sessionOp.pc = "save"
    /\ sessionOp' = [sessionOp EXCEPT !.pc = "done"]
    /\ UNCHANGED <<browserVars, storeVars, pc, items, tabData, customNames, savedSessions,
                   restoreVars, removeVars, autosaveVars, selVars, nextGroupId, created,
                   conts, historyVars, events, workerVars, lastOp>>

\* "Auto-save" of the context menu of a group that has a saved session: the switch
\* is turned, and items is saved
ToggleAutosave(g) ==
    /\ SessionGestureStart
    /\ FindGroup(items, g) # 0
    /\ items[FindGroup(items, g)].linkedSessionId # 0
    /\ items' = [items EXCEPT ![FindGroup(items, g)].autoSave = ~@]
    /\ stItems' = saveItems(items')
    /\ notifs' = AfterItemsWrite(stItems')
    /\ UNCHANGED <<browserVars, stNames, stSessions, stTabOrder, settings, pc, tabData,
                   customNames, savedSessions, restoreVars, removeVars, autosaveVars,
                   selVars, nextGroupId, created, conts, handlerAdded, prevItems, events,
                   workerVars, lastOp, sessionOp>>

\* a panel that is listening, every tab in one of two groups: group 1 is saved as
\* session 1 with autosave on, group 2 was never saved; tab 1 has a custom name
InitSessions ==
    /\ hostOrder = [i \in 1..OpTabs |-> i]
    /\ nextTabId = OpTabs + 1
    /\ settings = "bottom"
    /\ items \in {m \in OpModels : Len(m) = 2 /\ FindGroup(m, 1) # 0 /\ FindGroup(m, 2) # 0}
    /\ stItems = items
    /\ stNames = {1}
    /\ stSessions = [s \in SessionIds |-> IF s = FreshSessionId THEN NoSession
                                          ELSE UsedStore.sessions[s]]
    /\ stTabOrder = UsedStore.tabOrder
    /\ pc = "ready"
    /\ tabData = Range(hostOrder)
    /\ customNames = stNames
    /\ savedSessions = stSessions
    /\ selectedTabs = <<>>
    /\ Idle

NextSessions ==
    \/ \E g \in 1..2 : SaveSession(g)
    \/ \E defaultAutoSave \in BOOLEAN : SaveSettingsRead(defaultAutoSave)
    \/ SaveStored
    \/ SaveLinked
    \/ \E sessionId \in SessionIds : DeleteSession(sessionId)
    \/ DeleteCleared
    \/ DeleteSaved
    \/ \E t \in 1..OpTabs : TabNavigated(t)
    \/ StorageChanged
    \/ AutosaveTimerFires

SpecSessions == InitSessions /\ [][NextSessions]_vars

(***************************************************************************)
(* Tabs of every window type.  tabs.onCreated reaches the panel's listener *)
(* and the service worker's for a tab of any window; the service worker    *)
(* asks for the window's type first.                                       *)
(***************************************************************************)
WindowTypes == {"normal", "popup"}

Worker(t, w) == [tab |-> t, type |-> w, pc |-> "window", order |-> <<>>]

\* the browser creates a tab in a window of type w and fires tabs.onCreated
WindowTabCreated(w, o) ==
    /\ nextTabId <= MaxTabs
    /\ events < MaxEvents
    /\ events' = events + 1
    /\ o \in Range(hostOrder) \cup {0}
    /\ IF w = "normal"
       THEN /\ hostOrder' = Append(hostOrder, nextTabId)
            /\ UNCHANGED otherTabs
       ELSE /\ otherTabs' = otherTabs \cup {nextTabId}
            /\ UNCHANGED hostOrder
    /\ nextTabId' = nextTabId + 1
    /\ IF pc = "ready"
       THEN /\ tabData' = tabData \cup {nextTabId}
            /\ created' = created \cup {Handler(nextTabId, o)}
       ELSE UNCHANGED <<tabData, created>>
    /\ sw' = sw \cup {Worker(nextTabId, w)}
    /\ UNCHANGED <<storeVars, pc, items, customNames, savedSessions, restoreVars,
                   removeVars, autosaveVars, selVars, nextGroupId, conts, historyVars,
                   lastOp, sessionOp>>

\* the service worker's tabs.onCreated listener: chrome.windows.get has answered
SwWindowKnown(h) ==
    /\ h \in sw
    /\ h.pc = "window"
    /\ sw' = IF h.type # "normal" THEN sw \ {h}
             ELSE (sw \ {h}) \cup {[h EXCEPT !.pc = "order"]}
    /\ UNCHANGED <<browserVars, storeVars, pc, items, tabData, customNames, savedSessions,
                   restoreVars, removeVars, autosaveVars, selVars, nextGroupId, created,
                   conts, historyVars, events, otherTabs, lastOp, sessionOp>>

\* the service worker has read tabOrder
SwOrderRead(h) ==
    /\ h \in sw
    /\ h.pc = "order"
    /\ sw' = (sw \ {h}) \cup {[h EXCEPT !.pc = "settings", !.order = stTabOrder.order]}
    /\ UNCHANGED <<browserVars, storeVars, pc, items, tabData, customNames, savedSessions,
                   restoreVars, removeVars, autosaveVars, selVars, nextGroupId, created,
                   conts, historyVars, events, otherTabs, lastOp, sessionOp>>

\* the service worker has read the settings: it writes the new order
SwOrderWrite(h) ==
    /\ h \in sw
    /\ h.pc = "settings"
    /\ sw' = sw \ {h}
    /\ stTabOrder' =
          IF h.tab \in Range(h.order) THEN stTabOrder
          ELSE [present |-> TRUE,
                order |-> IF settings = "top" THEN <<h.tab>> \o h.order
                          ELSE Append(h.order, h.tab)]
    /\ UNCHANGED <<browserVars, stItems, stNames, stSessions, settings, notifs, pc, items,
                   tabData, customNames, savedSessions, restoreVars, removeVars,
                   autosaveVars, selVars, nextGroupId, created, conts, historyVars, events,
                   otherTabs, lastOp, sessionOp>>

NextWin ==
    \/ InitLoad
    \/ InitSync
    \/ InitReady
    \/ \E w \in WindowTypes, o \in 0..MaxTabs : WindowTabCreated(w, o)
    \/ \E h \in created : CreatedResume(h)
    \/ \E h \in created : CreatedSaved(h)
    \/ StorageChanged
    \/ AutosaveTimerFires
    \/ \E h \in sw : SwWindowKnown(h)
    \/ \E h \in sw : SwOrderRead(h)
    \/ \E h \in sw : SwOrderWrite(h)

SpecWin == Init /\ [][NextWin]_vars

FairSpec == Spec /\ WF_vars(RemoveTimerFires) /\ WF_vars(AutosaveTimerFires)

(***************************************************************************)
(* Properties.                                                             *)
(***************************************************************************)
\* the tabs the browser has closed
Closed == (1..(nextTabId - 1)) \ Range(hostOrder)

\* nothing of the panel is pending: init is over, the removal queue is empty and
\* its timer idle, no handler is suspended, no notification is undelivered
Quiescent ==
    /\ pc = "ready"
    /\ removeQueue = <<>>
    /\ ~removeTimeout
    /\ created = {}
    /\ passes = {}
    /\ restores = {}
    /\ conts = {}
    /\ notifs = <<>>

\* C1: each tab id appears at most once across the root items and the groups' tabs
C1_Uniqueness == NoDup(getAllTabIds(items))

\* C2: every group in items has a non-empty tabs list
C2_NoEmptyGroups == \A g \in Groups(items) : Len(g.tabs) > 0

\* C3: the tabs.onCreated handler never inserts a tab that restoreSession created
C3_RestoredNotInserted == handlerAdded \cap restoredTabs = {}

\* C4: when the panel is quiescent no closed tab is in items, in memory or persisted
C4_ClosedRemoved == Quiescent => (TabSet(items) \cup TabSet(stItems)) \cap Closed = {}

\* C5: when the panel is quiescent every live tab of the window is in items
C5_OpenedAdded == Quiescent => Range(hostOrder) \subseteq TabSet(items)

\* C6: a step that reorders the tab bar leaves items unchanged, in memory and persisted
C6_HostOrderIgnored ==
    [][(hostOrder' # hostOrder /\ Range(hostOrder') = Range(hostOrder))
          => (items' = items /\ stItems' = stItems)]_vars

\* a tab opened after the listeners were registered is no longer last in the tab
\* bar: the bar was reordered while the panel was listening, with items to reorder
C6_Witness ==
    /\ pc = "ready"
    /\ Len(items) > 1
    /\ \E h \in created : hostOrder[Len(hostOrder)] # h.tab /\ h.tab \in Range(hostOrder)

\* C7 as stated: the tab-removed events that arrive while the timer is pending are
\* taken by one pass, which takes the whole burst and calls storage.set once
C7_OneWrite ==
    /\ removeTimeout => removeQueue = burst
    /\ \A p \in passes : p.batch = p.burst /\ (p.pc = "save" => p.writes = 1)

\* C7 amended: one pass takes the whole burst and writes items once; it writes
\* customNames once before that when a tab of the burst had a name, and never more
C7_OneItemsWrite ==
    /\ removeTimeout => removeQueue = burst
    /\ \A p \in passes :
          /\ p.batch = p.burst
          /\ p.pc = "save" => (p.itemsWrites = 1 /\ p.writes \in {1, 2})
          /\ p.pc = "names" => (p.itemsWrites = 0 /\ p.writes = 1)

\* a burst of two closures has been taken by a pass that has written items
C7_Witness == \E p \in passes : Len(p.batch) > 1 /\ p.pc = "save"

\* C8: the items a removal pass persists hold no tab of its batch
C8_PassAtomic ==
    \A p \in passes : p.pc = "save" => TabSet(p.wrote) \cap Range(p.batch) = {}

\* C9: a removal queue, and an autosave queue, that is not empty becomes empty
C9_QueuesDrain ==
    /\ (removeQueue # <<>>) ~> (removeQueue = <<>>)
    /\ (autosaveQueue # <<>>) ~> (autosaveQueue = <<>>)

\* a tab-removed event has arrived while a removal pass is suspended
C9_Witness == passes # {} /\ removeQueue # <<>>

\* C10: syncItemsWithTabs applied again with the same tabs leaves items as the
\* first application left them
C10_SyncIdempotent == pc = "resynced" => items = prevItems

\* the second application has run in a window with SyncTabs tabs, on a model that
\* holds a group and every open tab
C10_Witness ==
    /\ pc = "resynced"
    /\ Groups(items) # {}
    /\ TabSet(stItems) = Range(hostOrder)
    /\ Len(hostOrder) = SyncTabs

(***************************************************************************)
(* Startup sync: what InitSync made of the loaded model prevItems and the  *)
(* queried tabs hostOrder.                                                 *)
(***************************************************************************)
\* the queried tabs that the loaded model did not hold
MissingTabs(old, tabs) == SelectSeq(tabs, LAMBDA t : t \notin TabSet(old))

\* the tabs lists of the groups of its, in the order of the groups
GroupTabs(its) ==
    LET gs == SelectSeq(its, LAMBDA it : ~IsTab(it))
    IN  [i \in DOMAIN gs |-> gs[i].tabs]

\* the tab ids at the root of its, in order
RootTabs(its) ==
    LET ts == SelectSeq(its, LAMBDA it : IsTab(it))
    IN  [i \in DOMAIN ts |-> ts[i].tab]

\* the tabs of the loaded model that are open keep their order and their groups,
\* groups left empty are gone, and the missing tabs are root items at the head
\* (top) or at the tail (bottom) of items
SyncKeepsAndPlaces ==
    LET live == Range(hostOrder)
        n == Len(MissingTabs(prevItems, hostOrder))
        kept == [i \in DOMAIN GroupTabs(prevItems) |->
                   SelectSeq(GroupTabs(prevItems)[i], LAMBDA t : t \in live)]
        added == IF settings = "top" THEN SubSeq(items, 1, n)
                 ELSE SubSeq(items, Len(items) - n + 1, Len(items))
    IN  /\ TabSet(items) = live
        /\ SelectSeq(getAllTabIds(items), LAMBDA t : t \in TabSet(prevItems))
              = SelectSeq(getAllTabIds(prevItems), LAMBDA t : t \in live)
        /\ GroupTabs(items) = SelectSeq(kept, LAMBDA ts : Len(ts) > 0)
        /\ \A g \in Groups(items) : Len(g.tabs) > 0
        /\ Len(items) >= n
        /\ \A i \in DOMAIN added : IsTab(added[i])
        /\ {added[i].tab : i \in DOMAIN added} = Range(MissingTabs(prevItems, hostOrder))

\* C11: after startup sync the model holds exactly the open tabs, each once; the
\* tabs it held keep order and group; empty groups are gone; the missing tabs are
\* at the root, before the prior items (top) or after them (bottom)
C11_SyncPostcondition ==
    pc = "sync" => (SyncKeepsAndPlaces /\ NoDup(getAllTabIds(items)))

\* C12: the tabs startup sync adds stand at the root in the order of the query
C12_AddedInQueryOrder ==
    pc = "sync" =>
        SelectSeq(RootTabs(items), LAMBDA t : t \notin TabSet(prevItems))
            = MissingTabs(prevItems, hostOrder)

(***************************************************************************)
(* Placement of a created tab.                                             *)
(***************************************************************************)
\* items' is items with tab t put where its opener o says: first or last in a
\* group that holds o, or first or last at the root when no group holds o
PlacedByOpener(t, o) ==
    LET holders == {i \in DOMAIN items : ~IsTab(items[i]) /\ o \in Range(items[i].tabs)}
    IN  IF o # 0 /\ holders # {}
        THEN \E i \in holders :
                items' = [items EXCEPT ![i].tabs = IF settings = "top" THEN <<t>> \o @
                                                    ELSE Append(@, t)]
        ELSE items' = IF settings = "top" THEN <<TabItem(t)>> \o items
                      ELSE Append(items, TabItem(t))

\* C13: when the tabs.onCreated handler adds its tab, the tab goes into the group
\* of its opener (first for top, last for bottom) or, the opener being in no
\* group, to the root (first for top, last for bottom); nothing else changes
C13_PlacementOnCreated ==
    [][\A h \in created :
          (h.tab \notin handlerAdded /\ h.tab \in handlerAdded')
              => PlacedByOpener(h.tab, h.opener)]_vars

\* the handler has added a tab to the group its opener is in
C13_Witness ==
    \E g \in Groups(items) : Len(g.tabs) > 1 /\ handlerAdded \cap Range(g.tabs) # {}

\* C14: no tab created in a window that is not of type normal is in the panel's
\* items, in memory or persisted, or in the service worker's tabOrder
C14_OnlyNormalWindows ==
    otherTabs \cap (TabSet(items) \cup TabSet(stItems) \cup Range(stTabOrder.order)) = {}

(***************************************************************************)
(* Gestures on the list: what the gesture recorded in lastOp made of the   *)
(* model lastOp.before.                                                    *)
(***************************************************************************)
\* seq has xs as a run of consecutive elements
HasRun(seq, xs) ==
    \E k \in 0..(Len(seq) - Len(xs)) : \A i \in DOMAIN xs : seq[k + i] = xs[i]

\* the tabs of lastOp in the order the flattened model had them before the gesture
MovedInModelOrder ==
    SelectSeq(getAllTabIds(lastOp.before), LAMBDA t : t \in Range(lastOp.tabs))

\* the moved tabs stand together at the destination (the root list, or the tabs
\* of the destination group) in the order the flattened model had them
MovedTogetherInOrder ==
    IF lastOp.group = 0
    THEN HasRun(items, [i \in DOMAIN MovedInModelOrder |-> TabItem(MovedInModelOrder[i])])
    ELSE /\ FindGroup(items, lastOp.group) # 0
         /\ HasRun(items[FindGroup(items, lastOp.group)].tabs, MovedInModelOrder)

\* C15: after a multi-selection is dropped on the root list or on a group the
\* model holds, the moved tabs stand together at the destination in the order
\* the flattened model had them before, whatever the order of the selection
C15_MultiDragOrder ==
    (/\ lastOp.name = "multiDrag"
     /\ lastOp.pc = "save"
     /\ lastOp.group # 0 => FindGroup(lastOp.before, lastOp.group) # 0)
        => MovedTogetherInOrder

\* C16: dissolveGroup on a group the model holds puts the group's tabs, in their
\* order, at the group's root index; the flattened tab ids are as before, the
\* group is gone and every other item is as before
C16_DissolveInPlace ==
    (/\ lastOp.name = "dissolve"
     /\ lastOp.pc = "save"
     /\ FindGroup(lastOp.before, lastOp.group) # 0)
        => LET old == lastOp.before
               at == FindGroup(old, lastOp.group)
               members == old[at].tabs
           IN  /\ items = SubSeq(old, 1, at - 1)
                            \o [i \in DOMAIN members |-> TabItem(members[i])]
                            \o SubSeq(old, at + 1, Len(old))
               /\ getAllTabIds(items) = getAllTabIds(old)
               /\ FindGroup(items, lastOp.group) = 0

\* a group of several tabs that stood before another item has been dissolved
C16_Witness ==
    /\ lastOp.name = "dissolve"
    /\ lastOp.pc = "save"
    /\ FindGroup(lastOp.before, lastOp.group) # 0
    /\ FindGroup(lastOp.before, lastOp.group) < Len(lastOp.before)
    /\ Len(lastOp.before[FindGroup(lastOp.before, lastOp.group)].tabs) > 1

\* C17: restoreSession(sid) called while items holds a group linked to session sid
\* starts no restore run, so creates no tab and adds no group, and leaves items,
\* in memory and persisted, as they are
C17_RestoreIdempotent ==
    [][\A sid \in SessionIds :
          ((\E g \in Groups(items) : g.linkedSessionId = sid) /\ RestoreStart(sid))
              => /\ restores' = restores
                 /\ items' = items
                 /\ stItems' = stItems
                 /\ hostOrder' = hostOrder
                 /\ nextTabId' = nextTabId]_vars

\* restoreSession has found the group linked to its session and focused its first
\* tab
C17_Witness ==
    /\ lastOp.name = "restoreFocus"
    /\ \E g \in Groups(items) :
          g.linkedSessionId = lastOp.group /\ g.tabs[1] = keyboardFocusedTabId

\* the gesture of lastOp named a tab or a group that the model did not hold when
\* it ran
StaleTarget ==
    \/ /\ lastOp.name = "createGroup"
       /\ lastOp.tabs # <<>>
       /\ Range(lastOp.tabs) \cap TabSet(lastOp.before) = {}
    \/ /\ lastOp.name \in {"drag", "multiDrag"}
       /\ lastOp.group # 0
       /\ FindGroup(lastOp.before, lastOp.group) = 0
    \/ /\ lastOp.name \in {"ungroup", "dissolve"}
       /\ FindGroup(lastOp.before, lastOp.group) = 0
    \/ /\ lastOp.name = "ungroup"
       /\ Range(lastOp.tabs) \cap TabSet(lastOp.before) = {}

\* C18: a gesture whose target tab or group is not in the model when it runs
\* leaves items, in memory and persisted, unchanged
C18_StaleNoOp ==
    StaleTarget => (items = lastOp.before /\ stItems = lastOp.before)

\* C19: when the panel is quiescent every custom name, in memory and persisted,
\* belongs to an open tab
C19_NamesOfLiveTabs ==
    Quiescent => (customNames \cup stNames) \subseteq Range(hostOrder)

\* the autosave groups linked to a session that the finished gesture left with other
\* members than they had before it
ChangedLinkedGroups ==
    {g.group : g \in {h \in Groups(items) :
        /\ h.autoSave
        /\ h.linkedSessionId # 0
        /\ \E b \in Groups(lastOp.before) :
              b.group = h.group /\ Range(b.tabs) # Range(h.tabs)}}

\* C20: once a gesture is over, every linked autosave group whose members it changed
\* is in the autosave queue
C20_AutosaveOnChange ==
    lastOp.pc = "done" => ChangedLinkedGroups \subseteq Range(autosaveQueue)

\* C21: autosave requests coalesce.  The queue holds a group once however often it is
\* requested and a timer is pending while it is not empty; a step that queues a
\* request rewrites no session; sessions are rewritten only by the step in which the
\* timer, re-armed by every request, fires: that step empties the queue, rewrites only
\* sessions of queued groups and leaves the store equal to the sessions in memory
C21_AutosaveCoalescing ==
    [][/\ NoDup(autosaveQueue')
       /\ autosaveQueue' # <<>> => autosaveTimeout'
       /\ (autosaveQueue' # autosaveQueue /\ autosaveQueue' # <<>>)
             => (savedSessions' = savedSessions /\ stSessions' = stSessions)
       /\ (pc = "ready" /\ (savedSessions' # savedSessions \/ stSessions' # stSessions))
             => /\ autosaveTimeout /\ ~autosaveTimeout'
                /\ autosaveQueue # <<>> /\ autosaveQueue' = <<>>
                /\ stSessions' = savedSessions'
                /\ \A sid \in SessionIds :
                      savedSessions'[sid] # savedSessions[sid]
                         => \E g \in Groups(items) : /\ g.linkedSessionId = sid
                                                     /\ g.group \in Range(autosaveQueue)]_vars

\* the timer that was armed more than once has fired and its one drain has rewritten
\* the session of a linked group
C21_Witness ==
    /\ coalesced
    /\ ~autosaveTimeout
    /\ autosaveQueue = <<>>
    /\ \E g \in Groups(items) :
          /\ g.linkedSessionId # 0
          /\ stSessions[g.linkedSessionId] # UsedStore.sessions[g.linkedSessionId]

\* C22: once deleteSession(S) has started, session S is in savedSessions neither in
\* memory nor in the store, whatever drains follow; once it is over no group of
\* items is linked to S
C22_DeleteStopsAutosave ==
    sessionOp.name = "delete"
       => /\ ~savedSessions[sessionOp.sid].exists
          /\ ~stSessions[sessionOp.sid].exists
          /\ sessionOp.pc = "done"
                => \A g \in Groups(items) : g.linkedSessionId # sessionOp.sid

\* C23: a backup exported from a consistent model has been imported and the panel
\* opened: after startup sync every open tab is in items once, no group is empty,
\* and the tabs of the backup that are open keep their order and their group
C23_BackupRoundTrip ==
    (lastOp.name = "import" /\ pc = "sync")
       => LET live == Range(hostOrder)
              snapshot == lastOp.before
          IN  /\ NoDup(getAllTabIds(items))
              /\ \A g \in Groups(items) : Len(g.tabs) > 0
              /\ TabSet(items) = live
              /\ SelectSeq(getAllTabIds(items), LAMBDA t : t \in TabSet(snapshot))
                    = SelectSeq(getAllTabIds(snapshot), LAMBDA t : t \in live)
              /\ \A t \in TabSet(snapshot) \cap live :
                    getTabGroupId(items, t) = getTabGroupId(snapshot, t)

\* startup sync has run on an imported backup that had a group with an open and a
\* closed tab, in a window with a tab the backup did not have
C23_Witness ==
    /\ lastOp.name = "import"
    /\ pc = "sync"
    /\ \E g \in Groups(lastOp.before) :
          /\ Range(g.tabs) \cap Range(hostOrder) # {}
          /\ Range(g.tabs) \ Range(hostOrder) # {}
    /\ Range(hostOrder) \ TabSet(lastOp.before) # {}

\* C24: an init() of a panel that is opened again does not adopt the legacy
\* tabOrder: what it loads as items is what the store holds as items
C24_MigrationOnce ==
    [][(lastOp.name = "reopen" /\ pc = "load" /\ pc' = "query")
          => (items' = stItems /\ stItems' = stItems)]_vars

\* its without tab t: t is gone from the root or from its group, a group that held
\* t alone is gone, every other item is where and what it was
WithoutTab(its, t) ==
    LET kept == SelectSeq(its, LAMBDA it : IF IsTab(it) THEN it.tab # t
                                          ELSE it.tabs # <<t>>)
    IN  [i \in DOMAIN kept |->
            IF IsTab(kept[i]) THEN kept[i]
            ELSE [kept[i] EXCEPT !.tabs = SelectSeq(kept[i].tabs, LAMBDA x : x # t)]]

\* C25: on a model that holds every tab once, removeTab takes out the given tab and
\* nothing else, and takes out its group exactly when the group held it alone
C25_RemoveTab ==
    /\ NoDup(getAllTabIds(items))
          => \A t \in 1..(OpTabs + 1) : removeTabFromItems(items, t) = WithoutTab(items, t)
    /\ LET root == <<TabItem(1), TabItem(2), OpGroup(1, <<3, 4>>)>>
       IN  /\ removeTabFromItems(root, 3) = <<TabItem(1), TabItem(2), OpGroup(1, <<4>>)>>
           /\ removeTabFromItems(removeTabFromItems(root, 3), 4) = <<TabItem(1), TabItem(2)>>

\* a drag has taken a tab out of the group it was alone in, and the group is gone
C25_Witness ==
    /\ lastOp.name = "drag"
    /\ NoDup(getAllTabIds(items))
    /\ \E g \in Groups(lastOp.before) : g.tabs = lastOp.tabs /\ FindGroup(items, g.group) = 0

\* C26: the removal step of startup sync and the batch pass of processRemoveQueue
\* give what removeTab gives when it is applied to each removed id in turn: sync
\* has made of the loaded model what removeTab makes of it for the tabs that are
\* not open, and the batch pass would make of it, for every set of ids, what
\* removeTab makes
C26_SamePrimitive ==
    pc = "sync"
       => LET ids == [i \in 1..SyncTabs |-> i]
              closed == SelectSeq(ids, LAMBDA t : t \notin Range(hostOrder))
          IN  /\ items = SyncAdd(RemoveEach(prevItems, closed), hostOrder, settings)
              /\ \A S \in SUBSET (1..SyncTabs) :
                    RemoveFilter(prevItems, S)
                       = RemoveEach(prevItems, SelectSeq(ids, LAMBDA t : t \in S))

\* the index in its of the item that is tab t or the group that holds it
RootIndexOf(its, t) ==
    CHOOSE i \in DOMAIN its : IF IsTab(its[i]) THEN its[i].tab = t ELSE t \in Range(its[i].tabs)

\* C27: createGroup on tabs of a model that holds every tab once ("Create group" on
\* a root tab, "Group N tabs" on a selection): the new group holds the given tabs,
\* the other items are what is left when those tabs are taken out, and the group
\* stands where the first of the given tabs stood: at the root index of that tab,
\* or of its old group, or right after that group when the group is still there
C27_CreateGroup ==
    LET before == lastOp.before
        given == lastOp.tabs
        flat == getAllTabIds(before)
        first == CHOOSE t \in Range(given) :
                    \A u \in Range(given) : IndexOf(flat, t) <= IndexOf(flat, u)
        at == RootIndexOf(before, first)
        new == FindGroup(items, lastOp.group)
    IN  (/\ lastOp.name = "createGroup"
         /\ lastOp.pc = "done"
         /\ NoDup(flat) /\ NoDup(given)
         /\ Range(given) \subseteq Range(flat)
         /\ \/ Len(given) > 1
            \/ Len(given) = 1 /\ getTabGroupId(before, given[1]) = 0)
           => /\ new # 0
              /\ items[new].tabs = given
              /\ RemoveAt(items, new) = RemoveFilter(before, Range(given))
              /\ \/ new = at
                 \/ /\ new = at + 1
                    /\ ~IsTab(before[at])
                    /\ FindGroup(items, before[at].group) = at

\* C28: ungroupTab for a member of a group takes the tab out of the group and puts
\* it at the root right after the group; when the group held that tab alone the
\* group is gone and the tab stands where the group stood; nothing else changes
C28_UngroupTab ==
    \A g \in Groups(items) : \A t \in Range(g.tabs) :
        LET at == FindGroup(items, g.group)
            rest == SelectSeq(items[at].tabs, LAMBDA x : x # t)
            after == ungroupTab(items, t, g.group)
        IN  IF rest = <<>>
            THEN after = [items EXCEPT ![at] = TabItem(t)]
            ELSE after = SubSeq(items, 1, at - 1)
                            \o <<[items[at] EXCEPT !.tabs = rest], TabItem(t)>>
                            \o SubSeq(items, at + 1, Len(items))

\* "Remove from group" has run on the only member of a group and on a member of a
\* larger group
C28_Witness ==
    /\ lastOp.name = "ungroup"
    /\ lastOp.pc = "done"
    /\ FindGroup(lastOp.before, lastOp.group) # 0
    /\ LET at == FindGroup(lastOp.before, lastOp.group)
       IN  /\ lastOp.before[at].tabs = lastOp.tabs
           /\ items = [lastOp.before EXCEPT ![at] = TabItem(lastOp.tabs[1])]
           /\ \E h \in Groups(items) : \E u \in Range(h.tabs) :
                 /\ Len(h.tabs) > 1
                 /\ Len(ungroupTab(items, u, h.group)) = Len(items) + 1

\* C29: once saveSession(group) has written, the session under the group's link (a
\* fresh id when it had none) holds the members that have a URL, in group order,
\* in memory and in the store; at the step that ends the handler, the group that
\* is in items is linked to that session
C29_SaveSession ==
    /\ [](\A data \in SUBSET (1..OpTabs) : \A g \in Groups(items) :
             LET have == SelectSeq(g.tabs, LAMBDA t : t \in data)
                 saved == SessionTabsOf(g.tabs, data, customNames)
             IN  /\ Len(saved) = Len(have)
                 /\ \A k \in DOMAIN have : saved[k].url = have[k])
    /\ []((sessionOp.name = "save" /\ sessionOp.pc \in {"set", "save", "done"})
             => /\ savedSessions[sessionOp.sid].exists
                /\ savedSessions[sessionOp.sid].tabs = sessionOp.tabs
                /\ stSessions[sessionOp.sid] = savedSessions[sessionOp.sid])
    /\ [][(sessionOp.name = "save" /\ sessionOp.pc = "save" /\ sessionOp'.pc = "done")
             => \A g \in Groups(items') :
                   g.group = sessionOp.group => g.linkedSessionId = sessionOp.sid]_vars

(***************************************************************************)
(* Session restore on its own: a listening panel with one open tab and a   *)
(* saved session of one to three tabs that no group is linked to.          *)
(***************************************************************************)
InitRestore ==
    /\ hostOrder = <<1>>
    /\ nextTabId = 2
    /\ settings = "bottom"
    /\ items = <<TabItem(1)>>
    /\ stItems = items
    /\ stNames = {}
    /\ \E auto \in BOOLEAN :
       \E names \in SeqsUpTo(BOOLEAN, MaxTabs) :
          /\ names # <<>>
          /\ stSessions = [s \in SessionIds |->
                             IF s = 1
                             THEN Session(auto, [i \in DOMAIN names |->
                                                    SessionTab(i, names[i])])
                             ELSE NoSession]
    /\ stTabOrder = UsedStore.tabOrder
    /\ pc = "ready"
    /\ tabData = Range(hostOrder)
    /\ customNames = stNames
    /\ savedSessions = stSessions
    /\ selectedTabs = <<>>
    /\ Idle

NextRestore ==
    \/ \E sid \in SessionIds : RestoreStart(sid)
    \/ \E r \in restores : RestoreTabCreated(r)
    \/ \E r \in restores : RestoreTabFailed(r)
    \/ \E r \in restores : RestoreBatchDone(r)
    \/ \E r \in restores : RestoreSaveItems(r)
    \/ \E h \in created : CreatedResume(h)
    \/ StorageChanged

SpecRestore == InitRestore /\ [][NextRestore]_vars

\* C30: restoreSession asks for each tab of the session once; no step of it closes
\* a tab; at the step that ends the batch, when no creation succeeded items is
\* left as it is, and otherwise one group is appended whose members are the ids of
\* the creations that succeeded, in session order
C30_PartialRestore ==
    /\ [](\A r \in restores : Len(r.results) <= Len(r.session.tabs))
    /\ [][restores' # restores
             => /\ Len(hostOrder') >= Len(hostOrder)
                /\ SubSeq(hostOrder', 1, Len(hostOrder)) = hostOrder]_vars
    /\ [][\A r \in restores :
             (/\ r.pc = "creating"
              /\ Len(r.results) = Len(r.session.tabs)
              /\ r \notin restores'
              /\ \A q \in restores' \ restores : q.pc # "creating")
                => LET succeeded == SelectSeq(r.results, LAMBDA id : id # 0)
                   IN  IF succeeded = <<>> THEN items' = items
                       ELSE /\ Len(items') = Len(items) + 1
                            /\ SubSeq(items', 1, Len(items)) = items
                            /\ ~IsTab(items'[Len(items')])
                            /\ items'[Len(items')].tabs = succeeded]_vars

\* a session of three tabs has been restored with one creation rejected: the group
\* holds the two tabs that were created, and both are open
C30_Witness ==
    /\ restores = {}
    /\ Len(savedSessions[1].tabs) = 3
    /\ Len(hostOrder) = 3
    /\ \E g \in Groups(items) :
          g.linkedSessionId = 1 /\ g.tabs = <<2, 3>> /\ Range(g.tabs) \subseteq Range(hostOrder)

\* C31: a modifier-click on tab t takes t out of the selection when it is selected;
\* otherwise it adds t and, when the selection was empty and another tab was
\* clicked last, that tab too; last-clicked becomes t and no other tab enters or
\* leaves the selection
C31_ModifierClick ==
    [][\A t \in 1..MaxTabs :
          CtrlClick(t)
             => LET sel == Range(selectedTabs)
                    implied == IF sel = {} /\ lastClickedTab \notin {0, t}
                               THEN {lastClickedTab} ELSE {}
                IN  /\ lastClickedTab' = t
                    /\ NoDup(selectedTabs) => NoDup(selectedTabs')
                    /\ Range(selectedTabs') = IF t \in sel THEN sel \ {t}
                                              ELSE sel \cup {t} \cup implied]_vars

\* a plain click on one tab and a modifier-click on another: both are selected
C31_Witness ==
    /\ clicks = 2
    /\ Len(selectedTabs) = 2
    /\ keyboardFocusedTabId = selectedTabs[1]
    /\ lastClickedTab = selectedTabs[2]

\* a range-click on t with both ends in the flattened model adds the tabs from the
\* last-clicked tab to t, in either direction, and removes none, and leaves
\* last-clicked and the focus as they are
RangeAdded(t) ==
    LET all == getAllTabIds(items)
        a == IndexOf(all, lastClickedTab)
        b == IndexOf(all, t)
    IN  /\ Range(selectedTabs')
              = Range(selectedTabs) \cup {all[k] : k \in {j \in DOMAIN all :
                                                            \/ a <= j /\ j <= b
                                                            \/ b <= j /\ j <= a}}
        /\ UNCHANGED <<lastClickedTab, keyboardFocusedTabId>>

\* C32 as stated: a range-click adds the tabs between last-clicked and t; when
\* last-clicked is unset or an end is not in the flattened model, the selection,
\* last-clicked and the focus stay as they are
C32_RangeClick ==
    [][\A t \in 1..MaxTabs :
          ShiftClick(t)
             => IF lastClickedTab # 0 /\ {lastClickedTab, t} \subseteq TabSet(items)
                THEN RangeAdded(t)
                ELSE UNCHANGED <<selectedTabs, lastClickedTab, keyboardFocusedTabId>>]_vars

\* C32, amended: with last-clicked set, a range-click adds the tabs between
\* last-clicked and t, and changes nothing when an end is not in the flattened
\* model; with last-clicked unset it is a normal click: the selection is cleared,
\* last-clicked and the focus become t
C32_RangeClickAnchored ==
    [][\A t \in 1..MaxTabs :
          ShiftClick(t)
             => IF lastClickedTab = 0
                THEN selectedTabs' = <<>> /\ lastClickedTab' = t /\ keyboardFocusedTabId' = t
                ELSE IF {lastClickedTab, t} \subseteq TabSet(items)
                THEN RangeAdded(t)
                ELSE UNCHANGED <<selectedTabs, lastClickedTab, keyboardFocusedTabId>>]_vars

\* a plain click on the third tab and a range-click on the first: the three tabs
\* are selected, upwards
C32_Witness ==
    /\ clicks = 2
    /\ Len(getAllTabIds(items)) = 3
    /\ lastClickedTab = getAllTabIds(items)[3]
    /\ keyboardFocusedTabId = lastClickedTab
    /\ selectedTabs = getAllTabIds(items)

(***************************************************************************)
(* Keyboard navigation on its own: the arrow keys and clicks on tab rows,  *)
(* from any model of the open tabs.                                        *)
(***************************************************************************)
\* the arrow branch with the cursor going round at the ends
ArrowIndexRound(all, focused, key) ==
    LET currentIndex == IndexOf(all, focused)
    IN  IF key = "ArrowDown" THEN (currentIndex % Len(all)) + 1
        ELSE IF currentIndex > 1 THEN currentIndex - 1 ELSE Len(all)

\* the index (1-based) the arrow branch of the keydown listener moves the cursor to:
\* indexOf gives 0 here where it gives -1 in the code, for a cursor that is null or
\* not in the list
ArrowIndex(all, focused, key) ==
    LET currentIndex == IndexOf(all, focused)
    IN  IF key = "ArrowDown"
        THEN IF currentIndex < Len(all) THEN currentIndex + 1 ELSE currentIndex
        ELSE IF currentIndex > 1 THEN currentIndex - 1
             ELSE IF currentIndex = 0 THEN Len(all) ELSE currentIndex

\* keydown of ArrowDown or ArrowUp outside an input, no context menu being open
ArrowKey(key) ==
    /\ UserStep
    /\ ~menu.open
    /\ getAllTabIds(items) # <<>>
    /\ LET allTabIds == getAllTabIds(items)
           newTabId == allTabIds[ArrowIndex(allTabIds, keyboardFocusedTabId, key)]
       IN  /\ keyboardFocusedTabId' = newTabId
           /\ lastClickedTab' = newTabId
           /\ selectedTabs' = <<>>
    /\ UNCHANGED <<browserVars, storeVars, pc, items, tabData, customNames, savedSessions,
                   restoreVars, removeVars, autosaveVars, menu, nextGroupId, created,
                   conts, handlerAdded, prevItems, events, workerVars, lastOp, sessionOp>>

NextKeys ==
    \/ \E key \in {"ArrowDown", "ArrowUp"} : ArrowKey(key)
    \/ \E t \in 1..OpTabs : PlainClick(t)
    \/ \E t \in 1..OpTabs : CtrlClick(t)

SpecKeys == InitModel /\ [][NextKeys]_vars

\* C33: with the cursor on a tab of the flattened order, ArrowDown puts it on the
\* next tab and ArrowUp on the one before, group headers not counting; on the last
\* tab ArrowDown leaves it, on the first tab ArrowUp leaves it
C33_ArrowClamps ==
    [][\A key \in {"ArrowDown", "ArrowUp"} :
          (ArrowKey(key) /\ keyboardFocusedTabId \in TabSet(items))
             => LET all == Flatten(items)
                    at == CHOOSE k \in DOMAIN all : all[k] = keyboardFocusedTabId
                IN  /\ key = "ArrowDown"
                          => keyboardFocusedTabId' = all[IF at = Len(all) THEN at ELSE at + 1]
                    /\ key = "ArrowUp"
                          => keyboardFocusedTabId' = all[IF at = 1 THEN at ELSE at - 1]]_vars

\* the cursor has gone down to the last tab, which is in a group and not the tab
\* clicked first, and ArrowDown has been pressed on it once more
C33_Witness ==
    /\ clicks = 4
    /\ LET all == getAllTabIds(items)
       IN  /\ keyboardFocusedTabId = all[Len(all)]
           /\ lastClickedTab = keyboardFocusedTabId
           /\ getTabGroupId(items, keyboardFocusedTabId) # 0
           /\ selectedTabs = <<>>

(***************************************************************************)
(* The service worker on its own, the panel not being open: tabs are       *)
(* created and closed, and each event's listener reads tabOrder at one     *)
(* step and writes it back at a later one.                                 *)
(***************************************************************************)
\* the browser closes tab t and fires tabs.onRemoved: the service worker's listener
\* asks for tabOrder
WorkerTabRemoved(t) ==
    /\ pc = "load"
    /\ events < MaxEvents
    /\ events' = events + 1
    /\ t \in Range(hostOrder)
    /\ Len(hostOrder) > 1
    /\ hostOrder' = SelectSeq(hostOrder, LAMBDA x : x # t)
    /\ sw' = sw \cup {[tab |-> t, type |-> "removed", pc |-> "read", order |-> <<>>]}
    /\ UNCHANGED <<nextTabId, storeVars, pc, items, tabData, customNames, savedSessions,
                   restoreVars, removeVars, autosaveVars, selVars, nextGroupId, created,
                   conts, historyVars, otherTabs, lastOp, sessionOp>>

\* the onRemoved listener has read tabOrder (an empty list when none is stored): it
\* filters the tab out and asks for the write
SwRemovedRead(h) ==
    /\ h \in sw
    /\ h.pc = "read"
    /\ sw' = (sw \ {h}) \cup
             {[h EXCEPT !.pc = "write",
                        !.order = SelectSeq(stTabOrder.order, LAMBDA id : id # h.tab)]}
    /\ UNCHANGED <<browserVars, storeVars, pc, items, tabData, customNames, savedSessions,
                   restoreVars, removeVars, autosaveVars, selVars, nextGroupId, created,
                   conts, historyVars, events, otherTabs, lastOp, sessionOp>>

\* the write of the onRemoved listener reaches the store
SwRemovedWrite(h) ==
    /\ h \in sw
    /\ h.pc = "write"
    /\ sw' = sw \ {h}
    /\ stTabOrder' = [present |-> TRUE, order |-> h.order]
    /\ UNCHANGED <<browserVars, stItems, stNames, stSessions, settings, notifs, pc, items,
                   tabData, customNames, savedSessions, restoreVars, removeVars,
                   autosaveVars, selVars, nextGroupId, created, conts, historyVars, events,
                   otherTabs, lastOp, sessionOp>>

NextWorker ==
    \/ \E w \in WindowTypes : WindowTabCreated(w, 0)
    \/ \E t \in 1..MaxTabs : WorkerTabRemoved(t)
    \/ \E h \in sw : SwWindowKnown(h)
    \/ \E h \in sw : SwOrderRead(h)
    \/ \E h \in sw : SwOrderWrite(h)
    \/ \E h \in sw : SwRemovedRead(h)
    \/ \E h \in sw : SwRemovedWrite(h)

SpecWorker == Init /\ [][NextWorker]_vars

\* C34: when every listener of the service worker has finished, tabOrder holds each
\* tab that was created in a normal window and is open exactly once, and no tab
\* that is closed
C34_WorkerOrder ==
    sw = {}
       => /\ \A t \in Range(hostOrder) :
                t >= 3 => Cardinality({k \in DOMAIN stTabOrder.order :
                                          stTabOrder.order[k] = t}) = 1
          /\ Range(stTabOrder.order) \cap Closed = {}

\* C35: a drag of one tab or of the selection, dropped at the root or into a group
\* that is in the model, leaves the model with the tabs it had
C35_DragKeepsTabs ==
    [][\A t \in 1..OpTabs, to \in 0..3, idx \in 0..OpTabs :
          (/\ DropTab(t, to, idx) \/ DropSelection(t, to, idx)
           /\ to = 0 \/ FindGroup(items, to) # 0
           /\ Range(selectedTabs) \subseteq TabSet(items))
             => TabSet(items') = TabSet(items)]_vars

\* C36: while no closed tab waits in the removal queue and no removal pass is
\* running, every selected tab is a tab of items
C36_SelectionInModel ==
    (removeQueue = <<>> /\ ~removeTimeout /\ passes = {})
       => Range(selectedTabs) \subseteq TabSet(items)

\* C37: no two groups of items are linked to the same saved session
C37_OneGroupPerSession ==
    \A i, j \in DOMAIN items :
        (/\ ~IsTab(items[i]) /\ ~IsTab(items[j])
         /\ items[i].linkedSessionId # 0
         /\ items[i].linkedSessionId = items[j].linkedSessionId) => i = j

\* C38: when no restoreSession call and no tabs.onCreated handler is suspended,
\* restoringTabIds is empty
C38_MarkersTransient ==
    (restores = {} /\ created = {}) => restoringTabIds = {}

(***************************************************************************)
(* Session restore, every creation succeeding, together with the deletion  *)
(* of sessions.                                                            *)
(***************************************************************************)
NextLinks ==
    \/ \E sid \in SessionIds : RestoreStart(sid)
    \/ \E r \in restores : RestoreTabCreated(r)
    \/ \E r \in restores : RestoreBatchDone(r)
    \/ \E r \in restores : RestoreSaveItems(r)
    \/ \E h \in created : CreatedResume(h)
    \/ \E sessionId \in SessionIds : DeleteSession(sessionId)
    \/ DeleteCleared
    \/ DeleteSaved
    \/ StorageChanged

SpecLinks == InitRestore /\ [][NextLinks]_vars

\* C39: while no restore, no session handler and no tabs.onCreated handler is
\* suspended and no storage notification is undelivered, the session every linked
\* group names is in savedSessions
C39_NoDanglingLinks ==
    (restores = {} /\ created = {} /\ sessionOp.pc = "done" /\ notifs = <<>>)
       => \A g \in Groups(items) :
             g.linkedSessionId # 0 => savedSessions[g.linkedSessionId].exists

(***************************************************************************)
(* Autosave and its switch: tabs of the groups navigate, the switch of a   *)
(* saved group is turned, the quiet period ends.                           *)
(***************************************************************************)
NextAutosave ==
    \/ \E g \in 1..2 : ToggleAutosave(g)
    \/ \E t \in 1..OpTabs : TabNavigated(t)
    \/ AutosaveTimerFires
    \/ StorageChanged

SpecAutosave == InitSessions /\ [][NextAutosave]_vars

\* C40: an autosave drain changes a saved session only when a group linked to it
\* has autoSave on at the drain
C40_AutosaveSwitch ==
    [][AutosaveTimerFires
          => \A sid \in SessionIds :
                savedSessions'[sid] # savedSessions[sid]
                   => \E g \in Groups(items) : g.linkedSessionId = sid /\ g.autoSave]_vars

====
